---- MODULE Spec2Model ----
(***************************************************************************)
(* Model of the swim WARP client core: the connection pool, the WebSocket  *)
(* connection, the downlink-manager pool and manager                       *)
(* (src/swimos/client/_connections.py), the value downlink model and view  *)
(* (src/swimai/client/downlinks/downlinks.py) and the client's task        *)
(* scheduling (src/swimai/client/swim_client.py).                          *)
(*                                                                         *)
(* The program runs as asyncio tasks on one event loop.  A task runs       *)
(* without interruption until it awaits something that is not ready: the   *)
(* handshake, a socket send, recv or close, the sleep of the retry         *)
(* strategy, or the wait on an asyncio.Event.  "ready" is the loop's FIFO   *)
(* queue of runnable tasks; an input/output completion, an Event.set(), a   *)
(* cancel() or a schedule_task() appends a task to it, and the Run actions *)
(* run the task at its head up to its next suspension.                     *)
(***************************************************************************)
EXTENDS Integers, Sequences, FiniteSets, TLC

\* ------------------------------------------------------------------ bounds
MaxConn == 3        \* _WSConnection objects ever constructed
MaxMgr == 2         \* _DownlinkManager objects ever constructed
MaxOpens == 1       \* open() calls per view
MaxSets == 2        \* set() calls per view
MaxCommands == 1    \* client.command() calls
MaxInbox == 1       \* frames the server has sent that recv() has not returned yet
MaxDrops == 1       \* times the peer closes a socket
MaxFails == 2       \* handshakes that fail
MaxEvents == 2      \* event frames the server sends
MaxGets == 1        \* get() calls per view
MaxCalls == 4       \* calls of view methods that the call log counts
MaxJunk == 2        \* frames of no lane, or that do not parse, the server sends
MaxText == 3        \* length of the strs given to is_ident
MaxItems == 2       \* items of a record given to the writers
MaxLog == 3         \* length of the per-socket traffic log kept for the claims

RetriesLimit == 1   \* retries_limit the facade gives an IntervalStrategy

Views == {"v1", "v2"}
Hosts == {"h1", "h2"}
\* the host the application sends its commands to
CommandHosts == {"h1"}
Routes == {"n/a", "n/b"}
NoConn == 0
NoMgr == 0
None == "None"
Absent == "Absent"     \* the recon Absent body
NoLimit == -1          \* retries_limit = None

\* Arguments of did_set(): functions, and values that are not callable.
Callables == {"f", "g"}
NonCallables == {"17"}

\* hist.last_call before any call
NoCall == [op |-> None, v |-> None, was_open |-> FALSE, raised |-> None]

ConnIds == 1..MaxConn
MgrIds == 1..MaxMgr

\* _ConnectionStatus, _DownlinkManagerStatus
CLOSED == "CLOSED"
CONNECTING == "CONNECTING"
IDLE == "IDLE"
RUNNING == "RUNNING"
OPENING == "OPENING"
OPEN == "OPEN"

\* Task identities: one add, remove and get task per view, one send task per
\* set() call of a view, one receive task and one model-close task per manager
\* (model), one command task.
TaskIds ==
    ({"add", "rem", "get"} \X Views) \cup ({"snd"} \X Views \X (1..MaxSets))
        \cup ({"rx", "mcl"} \X MgrIds) \cup {<<"cmd", 0>>}

VARIABLES
    pool,       \* _ConnectionPool.__connections: host -> connection id (NoConn: no entry)
    strategy,   \* _ConnectionPool.retry_strategy: [kind, retries], shared by every connection
    nconn,      \* number of _WSConnection objects constructed
    conns,      \* the _WSConnection objects
    nmgr,       \* number of _DownlinkManager objects constructed
    mgrs,       \* the _DownlinkManager objects, each with its downlink model
    views,      \* the downlink views
    tasks,      \* the tasks: where each is suspended and its local variables
    ready,      \* the event loop's queue of runnable tasks
    waiting,    \* tasks suspended on an asyncio.Event, in the order they began to wait
    inbox,      \* per connection: frames received by the socket, not yet returned by recv()
    hist,       \* history of callbacks and traffic, read by the properties only
    recon       \* a call of the recon codec: its arguments and what it returned

vars == <<pool, strategy, nconn, conns, nmgr, mgrs, views, tasks, ready, waiting, inbox, hist,
          recon>>

\* The whole state as one record, so that a handler's sequential code is a
\* composition of functions from state to state.
St ==
    [pool |-> pool, strategy |-> strategy, nconn |-> nconn, conns |-> conns,
     nmgr |-> nmgr, mgrs |-> mgrs, views |-> views, tasks |-> tasks,
     ready |-> ready, waiting |-> waiting, inbox |-> inbox, hist |-> hist]

Commit(n) ==
    /\ pool' = n.pool
    /\ strategy' = n.strategy
    /\ nconn' = n.nconn
    /\ conns' = n.conns
    /\ nmgr' = n.nmgr
    /\ mgrs' = n.mgrs
    /\ views' = n.views
    /\ tasks' = n.tasks
    /\ ready' = n.ready
    /\ waiting' = n.waiting
    /\ inbox' = n.inbox
    /\ hist' = n.hist
    /\ recon' = recon

\* ------------------------------------------------------------- sequences
Contains(q, x) == \E i \in 1..Len(q) : q[i] = x

Without(q, x) ==
    LET Keep(y) == y # x IN SelectSeq(q, Keep)

\* dict[key] = value on an insertion-ordered dict whose keys are the views
DictPut(q, x) == IF Contains(q, x) THEN q ELSE Append(q, x)

Capped(q, x) == IF Len(q) < MaxLog THEN Append(q, x) ELSE q

Inc(n, max) == IF n < max THEN n + 1 ELSE n

\* ------------------------------------------------------------------ tasks
NoFrame == [tag |-> "", route |-> "", body |-> None]

\* Frames that are no message of a lane of the client: an envelope tag that no
\* form knows, addressed to a lane, to a lane nobody holds or to nothing, and an
\* event whose header names no node and lane.
Junk ==
    [tag : {"bogus"}, route : {"n/a", "n/zz", ""}, body : {None}]
        \cup {[tag |-> "event", route |-> "", body |-> "42"]}

\* A frame on which _Envelope._parse_recon, or the handler it is given to, raises.
Unparsed == {[tag |-> "raises", route |-> "", body |-> None]}

\* Messages addressed to the host.
HostFrames == [tag : {"authed", "deauthed"}, route : {""}, body : {None}]

NoTask ==
    [ctx |-> "", pt |-> "none", res |-> "", c |-> NoConn, m |-> NoMgr, cancel |-> FALSE,
     frame |-> NoFrame]

Finished(tk) == tk.pt \in {"none", "done", "failed", "cancelled"}

\* The task awaits at point pt of call site ctx.
Suspend(s, t, ctx, pt) ==
    [s EXCEPT !.tasks[t].ctx = ctx, !.tasks[t].pt = pt, !.tasks[t].res = ""]

\* The task awaits an asyncio.Event that is not set.
SuspendOnEvent(s, t, ctx, pt) ==
    LET s1 == Suspend(s, t, ctx, pt) IN [s1 EXCEPT !.waiting = Append(@, t)]

\* The coroutine of the task returns: the task is done and its locals are gone.
Ended(s, t, how) ==
    LET s1 == [s EXCEPT !.tasks[t] = [NoTask EXCEPT !.pt = how]]
    IN  CASE t[1] = "add" /\ how = "done" -> [s1 EXCEPT !.hist.subscribes[t[2]] = @ + 1]
          [] t[1] = "rem" -> [s1 EXCEPT !.hist.unsubscribes[t[2]] = @ + 1]
          [] OTHER -> s1

Finish(s, t) == Ended(s, t, "done")

\* An exception leaves the coroutine of the task (no handler of the task catches it).
Raise(s, t) == Ended(s, t, "failed")

\* SwimClient.schedule_task: a new task, runnable, at the end of the loop's queue.
schedule_task(s, t, c, m) ==
    [s EXCEPT !.tasks[t] = [NoTask EXCEPT !.pt = "start", !.c = c, !.m = m],
              !.ready = Append(@, t)]

\* An input/output completion or an Event.set() makes a suspended task runnable.
WakeTasks(s, Test(_)) ==
    LET Rest(t) == ~Test(t)
    IN  [s EXCEPT !.ready = @ \o SelectSeq(s.waiting, Test),
                  !.waiting = SelectSeq(@, Rest)]

RECURSIVE SetToSeq(_)
SetToSeq(S) ==
    IF S = {} THEN <<>>
    ELSE LET x == CHOOSE y \in S : TRUE IN <<x>> \o SetToSeq(S \ {x})

\* Task.cancel(): CancelledError is thrown into the task when it next runs.
cancel(s, t) ==
    IF Finished(s.tasks[t]) THEN s
    ELSE LET s1 == [s EXCEPT !.tasks[t].cancel = TRUE, !.waiting = Without(@, t)]
         IN  IF Contains(s.ready, t) THEN s1 ELSE [s1 EXCEPT !.ready = Append(@, t)]

\* ------------------------------------------------------- retry strategies
\* The synchronous test at the head of retry(); the base RetryStrategy returns False.
retry_approves(st) ==
    CASE st.kind = "RetryStrategy" -> FALSE
      [] st.kind = "IntervalStrategy" -> st.limit = NoLimit \/ st.limit > st.retries
      [] st.kind = "ExponentialStrategy" -> st.limit = NoLimit \/ st.limit >= st.retries

\* retry() after its sleep: self.retries += 1; return True
retry_counted(s) == [s EXCEPT !.strategy.retries = @ + 1]

\* a reset() that keeps the counter
reset_keeps(s) == s

reset(s) ==
    IF s.strategy.kind = "RetryStrategy" THEN s ELSE [s EXCEPT !.strategy.retries = 0]

\* ------------------------------------------------------ _WSConnection
NewConnection(h, kl, ks) ==
    [host |-> h, status |-> CLOSED, websocket |-> None, connected |-> FALSE,
     auth_message |-> None, init_message |-> None,
     keep_linked |-> kl, keep_synced |-> ks,
     subscribers |-> [r \in Routes |-> NoMgr],
     sent |-> <<>>, stored |-> <<>>, authenticated |-> FALSE]

should_reconnect(cn) == cn.keep_linked \/ cn.keep_synced

\* _DownlinkManagerPool._size
PoolSize(cn) == Cardinality({r \in Routes : cn.subscribers[r] # NoMgr})

has_subscribers(cn) == PoolSize(cn) > 0

\* self.connected.set()
connected_set(s, c) ==
    LET Waits(t) == s.tasks[t].pt = "connected" /\ s.tasks[t].c = c
    IN  [WakeTasks(s, Waits) EXCEPT !.conns[c].connected = TRUE]

\* The socket of c is closed (by websocket.close() or by the peer): a recv() that
\* is waiting on it raises ConnectionClosed.
RecvWaiters(s, c) ==
    {t \in TaskIds : /\ s.tasks[t].pt = "recv"
                     /\ s.tasks[t].c = c
                     /\ ~Contains(s.ready, t)}

SocketClosed(s, c) ==
    LET ws == RecvWaiters(s, c)
    IN  [s EXCEPT !.conns[c].websocket = "closed",
                  !.conns[c].sent = <<>>,
                  !.conns[c].stored = <<>>,
                  !.ready = @ \o SetToSeq(ws),
                  !.tasks = [t \in TaskIds |->
                                IF t \in ws THEN [@[t] EXCEPT !.res = "closed"] ELSE @[t]]]

\* What a call site of _send_message sends.
MessageOf(ctx) ==
    CASE ctx = "establish" -> "sync"
      [] ctx = "auth" -> "auth"
      [] ctx = "init" -> "init"
      [] OTHER -> "command"

Written(s, c, msg) ==
    LET s1 == [s EXCEPT !.conns[c].sent = Capped(@, msg)]
    IN  IF msg = "sync" THEN [s1 EXCEPT !.hist.syncs = Inc(@, MaxMgr + 1)] ELSE s1

\* ------------------------------------- value downlink model, manager fan-out
\* _DownlinkManager._subscribers_did_set: every view of the manager, in dict order.
subscribers_did_set(s, m, new, old) ==
    LET vs == s.mgrs[m].views
    IN  [s EXCEPT !.hist.did_set =
            [v \in Views |-> IF Contains(vs, v) THEN Append(@[v], <<new, old>>) ELSE @[v]]]

\* __set_value that reads old_value after the assignment
set_value_late_old(s, m, body) ==
    LET s1 == [s EXCEPT !.mgrs[m].value = IF body = Absent THEN None ELSE body]
        old_value == s1.mgrs[m].value
        s2 == [s1 EXCEPT !.hist.set_value[m] = Append(@, <<s1.mgrs[m].value, old_value>>)]
    IN  subscribers_did_set(s2, m, s2.mgrs[m].value, old_value)

\* ValueDownlinkModel.__set_value
set_value(s, m, body) ==
    LET old_value == s.mgrs[m].value
        s1 == [s EXCEPT !.mgrs[m].value = IF body = Absent THEN None ELSE body]
        s2 == [s1 EXCEPT !.hist.set_value[m] = Append(@, <<s1.mgrs[m].value, old_value>>)]
    IN  subscribers_did_set(s2, m, s2.mgrs[m].value, old_value)

\* ValueDownlinkModel.receive_message
model_receive_message(s, m, frame) ==
    CASE frame.tag = "linked" -> [s EXCEPT !.mgrs[m].linked = TRUE]
      [] frame.tag = "synced" ->
            LET Waits(t) == s.tasks[t].pt = "synced" /\ s.tasks[t].m = m
            IN  [WakeTasks(s, Waits) EXCEPT !.mgrs[m].synced = TRUE]
      [] frame.tag = "event" -> set_value(s, m, frame.body)
      [] OTHER -> s

\* _DownlinkManagerPool._receive_message, _DownlinkManager._receive_message
pool_receive_message(s, c, frame) ==
    LET downlink_manager == IF frame.route \in Routes
                            THEN s.conns[c].subscribers[frame.route]
                            ELSE NoMgr
        s1 == IF downlink_manager # NoMgr /\ frame.tag = "synced"
              THEN [s EXCEPT !.hist.synced_frames[downlink_manager] = Inc(@, 1)]
              ELSE s
    IN  IF downlink_manager # NoMgr
        THEN model_receive_message(s1, downlink_manager, frame)
        ELSE s

\* _WSConnection._receive_message: a host addressed message
host_receive_message(s, c, frame) ==
    CASE frame.tag = "authed" -> [s EXCEPT !.conns[c].authenticated = TRUE]
      [] frame.tag = "deauthed" -> [s EXCEPT !.conns[c].authenticated = FALSE]
      [] OTHER -> s

\* ------------------------------------------- the coroutines, by call site
\* ctx names the call site whose continuation runs when the awaited call returns:
\*   _open from          "subscribe" (_subscribe), "reopen" (_wait_for_messages)
\*   _send_message from  "establish" (establish_downlink), "auth", "init"
\*                       (_send_auth_message, _send_init_message in _wait_for_messages),
\*                       "view_send" (ValueDownlinkModel.send_message), "command"
\*   _close from         "unsubscribe", "remove_connection", "rx_except"
RECURSIVE WSConnection_open(_, _, _), AfterOpen(_, _, _), SendWait(_, _, _)
RECURSIVE AfterSend(_, _, _), WSConnection_close(_, _, _), AfterClose(_, _, _)
RECURSIVE wait_for_messages(_, _), RxInner(_, _), send_init_message(_, _)
RECURSIVE Received(_, _, _)
RECURSIVE WSConnection_send_message(_, _, _), send_auth_message(_, _)
RECURSIVE register_downlink_view(_, _), RemoveTail(_, _)

\* await self.websocket.send(message): the frame is written, the task awaits the
\* drain; on a closed socket send raises ConnectionClosed, on None AttributeError.
SendNow(s, t, ctx) ==
    LET c == s.tasks[t].c
    IN  IF s.conns[c].websocket = "open"
        THEN LET s1 == IF t[1] = "snd"
                       THEN [s EXCEPT !.hist.written[t[2]] = Append(@, t[3])]
                       ELSE s
             IN  Suspend(Written(s1, c, MessageOf(ctx)), t, ctx, "send")
        ELSE Raise(s, t)

\* The messages stored in the connection: the auth message, then the init message.
StoredMessages(cn) ==
    (IF cn.auth_message # None THEN <<"auth">> ELSE <<>>)
        \o (IF cn.init_message # None THEN <<"init">> ELSE <<>>)

\* _WSConnection._open, up to its first await
WSConnection_open(s, t, ctx) ==
    LET c == s.tasks[t].c
    IN  IF s.conns[c].status = CLOSED
        THEN Suspend([s EXCEPT !.conns[c].status = CONNECTING], t, ctx, "connect")
        ELSE AfterOpen(s, t, ctx)

\* _open that leaves the status as it is when it gives up
OpenResumed_no_closed(s, t, pt) ==
    LET c == s.tasks[t].c
        ctx == s.tasks[t].ctx
    IN  CASE pt = "connect" /\ s.tasks[t].res = "ok" ->
                LET s1 == reset([s EXCEPT !.conns[c].websocket = "open",
                                          !.conns[c].sent = <<>>,
                                          !.conns[c].stored = StoredMessages(s.conns[c]),
                                          !.inbox[c] = <<>>])
                    s2 == [s1 EXCEPT !.conns[c].status = IDLE]
                IN  AfterOpen(connected_set(s2, c), t, ctx)
          [] pt = "connect" /\ s.tasks[t].res # "ok" ->
                IF should_reconnect(s.conns[c]) /\ retry_approves(s.strategy)
                THEN Suspend(s, t, ctx, "sleep")
                ELSE Raise(s, t)
          [] pt = "sleep" ->
                LET s1 == retry_counted(s)
                IN  IF s1.conns[c].status = CONNECTING
                    THEN Suspend(s1, t, ctx, "connect")
                    ELSE AfterOpen(connected_set(s1, c), t, ctx)

\* _WSConnection._open resumed: the handshake returned or raised, or retry() slept
OpenResumed(s, t, pt) ==
    LET c == s.tasks[t].c
        ctx == s.tasks[t].ctx
    IN  CASE pt = "connect" /\ s.tasks[t].res = "ok" ->
                LET s1 == reset([s EXCEPT !.conns[c].websocket = "open",
                                          !.conns[c].sent = <<>>,
                                          !.conns[c].stored = StoredMessages(s.conns[c]),
                                          !.inbox[c] = <<>>])
                    s2 == [s1 EXCEPT !.conns[c].status = IDLE]
                IN  AfterOpen(connected_set(s2, c), t, ctx)
          [] pt = "connect" /\ s.tasks[t].res # "ok" ->
                IF should_reconnect(s.conns[c]) /\ retry_approves(s.strategy)
                THEN Suspend(s, t, ctx, "sleep")
                ELSE Raise([s EXCEPT !.conns[c].status = CLOSED], t)
          [] pt = "sleep" ->
                LET s1 == retry_counted(s)
                IN  IF s1.conns[c].status = CONNECTING
                    THEN Suspend(s1, t, ctx, "connect")
                    ELSE AfterOpen(connected_set(s1, c), t, ctx)

\* _WSConnection._send_message
WSConnection_send_message(s, t, ctx) ==
    LET c == s.tasks[t].c
    IN  IF s.conns[c].websocket = None \/ s.conns[c].status = CLOSED
        THEN WSConnection_open(s, t, ctx)
        ELSE SendWait(s, t, ctx)

\* await self.connected.wait()
SendWait(s, t, ctx) ==
    IF s.conns[s.tasks[t].c].connected
    THEN SendNow(s, t, ctx)
    ELSE SuspendOnEvent(s, t, ctx, "connected")

\* The tasks that wait in the sleep of retry() for connection c.
Sleepers(s, c) ==
    {t \in TaskIds : s.tasks[t].c = c /\ s.tasks[t].pt \in {"sleep", "retry"}}

\* _WSConnection._close, up to its await of websocket.close()
WSConnection_close(s, t, ctx) ==
    LET c == s.tasks[t].c
        s0 == IF ctx # "rx_except" /\ Sleepers(s, c) # {}
              THEN [s EXCEPT !.hist.closed_asleep[c] = TRUE]
              ELSE s
    IN  IF s0.conns[c].status # CLOSED
        THEN LET s1 == [s0 EXCEPT !.conns[c].status = CLOSED]
             IN  IF s1.conns[c].websocket # None
                 THEN Suspend(SocketClosed(s1, c), t, ctx, "close")
                 ELSE AfterClose(s1, t, ctx)
        ELSE AfterClose(s0, t, ctx)

\* _WSConnection._close resumed: self.connected.clear()
CloseResumed(s, t) ==
    AfterClose([s EXCEPT !.conns[s.tasks[t].c].connected = FALSE], t, s.tasks[t].ctx)

\* _DownlinkManager.__init__
NewManager(c, r) ==
    [connection |-> c, route |-> r, status |-> CLOSED, has_model |-> FALSE,
     views |-> <<>>, linked |-> FALSE, synced |-> FALSE, value |-> None, kind |-> None]

\* _DownlinkManager._init_downlink_model, ValueDownlinkView.create_downlink_model:
\* the view creates the model, a model of the kind of the view
init_downlink_model(s, m, v) ==
    [s EXCEPT !.mgrs[m].has_model = TRUE,
              !.mgrs[m].kind = s.views[v].kind,
              !.hist.models = Inc(@, MaxMgr + 1)]

\* _DownlinkView._register_manager: the view takes the manager's model and sets
\* its initialised event
register_manager(s, v, m) ==
    LET Waits(t) == s.tasks[t].pt = "initialised" /\ t[2] = v
    IN  [WakeTasks(s, Waits) EXCEPT !.views[v].model = m, !.views[v].initialised = TRUE]

\* _DownlinkManager._add_view from its insertion of the view on, and the
\* _execute_did_open that ends _subscribe
add_view_insert(s, t) ==
    LET v == t[2]
        m == s.tasks[t].m
        s1 == [s EXCEPT !.mgrs[m].views = DictPut(@, v)]
    IN  Finish([s1 EXCEPT !.hist.did_open[v] = @ + 1], t)

\* _DownlinkManager._open: ValueDownlinkModel.open schedules the receive loop of the
\* model's connection, establish_downlink sends the sync request
DownlinkManager_open(s, t) ==
    LET m == s.tasks[t].m
    IN  IF s.mgrs[m].status = CLOSED
        THEN LET s1 == [s EXCEPT !.mgrs[m].status = OPENING]
                 s2 == schedule_task(s1, <<"rx", m>>, s1.mgrs[m].connection, m)
                 s3 == [s2 EXCEPT !.tasks[t].c = s2.mgrs[m].connection]
             IN  WSConnection_send_message(s3, t, "establish")
        ELSE add_view_insert(s, t)

\* _DownlinkManager._add_view
add_view(s, t) ==
    LET v == t[2]
        m == s.tasks[t].m
        s1 == IF s.mgrs[m].has_model THEN s ELSE init_downlink_model(s, m, v)
        s2 == register_manager(s1, v, m)
    IN  IF Len(s2.mgrs[m].views) = 0
        THEN DownlinkManager_open(s2, t)
        ELSE add_view_insert(s2, t)

\* _DownlinkManagerPool._register_downlink_view
register_downlink_view(s, t) ==
    LET v == t[2]
        c == s.tasks[t].c
        r == s.views[v].route
        existing == s.conns[c].subscribers[r]
        m == IF existing = NoMgr THEN s.nmgr + 1 ELSE existing
        s1 == IF existing = NoMgr
              THEN [s EXCEPT !.nmgr = m,
                             !.mgrs[m] = NewManager(s.views[v].connection, r),
                             !.conns[c].subscribers[r] = m]
              ELSE s
    IN  add_view([s1 EXCEPT !.tasks[t].m = m], t)

\* _WSConnection._subscribe
subscribe(s, t) ==
    IF PoolSize(s.conns[s.tasks[t].c]) = 0
    THEN WSConnection_open(s, t, "subscribe")
    ELSE register_downlink_view(s, t)

\* _DownlinkManager._close: ValueDownlinkModel.close schedules __close
DownlinkManager_close(s, m) ==
    IF s.mgrs[m].status # CLOSED
    THEN schedule_task([s EXCEPT !.mgrs[m].status = CLOSED], <<"mcl", m>>, NoConn, m)
    ELSE s

\* _DownlinkManager._remove_view
remove_view(s, m, v) ==
    IF Contains(s.mgrs[m].views, v)
    THEN LET s1 == [s EXCEPT !.mgrs[m].views = Without(@, v)]
         IN  IF Len(s1.mgrs[m].views) = 0 THEN DownlinkManager_close(s1, m) ELSE s1
    ELSE s

\* _DownlinkManagerPool._deregister_downlink_view
deregister_downlink_view(s, c, v) ==
    LET r == s.views[v].route
        m == s.conns[c].subscribers[r]
    IN  IF m # NoMgr
        THEN LET s1 == remove_view(s, m, v)
             IN  IF Len(s1.mgrs[m].views) = 0
                 THEN [s1 EXCEPT !.conns[c].subscribers[r] = NoMgr]
                 ELSE s1
        ELSE s

\* _WSConnection._unsubscribe
unsubscribe(s, t) ==
    LET v == t[2]
        c == s.tasks[t].c
        s1 == deregister_downlink_view(s, c, v)
        s2 == [s1 EXCEPT !.hist.did_close[v] = @ + 1]
    IN  IF ~has_subscribers(s2.conns[c])
        THEN WSConnection_close(s2, t, "unsubscribe")
        ELSE RemoveTail(s2, t)

\* _ConnectionPool._remove_connection
remove_connection(s, t) ==
    LET h == s.views[t[2]].host
        connection == s.pool[h]
    IN  IF connection # NoConn
        THEN WSConnection_close([s EXCEPT !.pool[h] = NoConn, !.tasks[t].c = connection],
                                t, "remove_connection")
        ELSE Finish(s, t)

\* _ConnectionPool._remove_downlink_view after its _unsubscribe
RemoveTail(s, t) ==
    IF s.conns[s.tasks[t].c].status = CLOSED
    THEN remove_connection(s, t)
    ELSE Finish(s, t)

\* _ConnectionPool._remove_downlink_view
remove_downlink_view(s, t) ==
    LET connection == s.pool[s.views[t[2]].host]
    IN  IF connection # NoConn
        THEN unsubscribe([s EXCEPT !.tasks[t].c = connection], t)
        ELSE Finish(s, t)

\* _get_connection that hands out the stored connection whatever its status
get_connection_any_status(s, h, kl, ks) ==
    LET connection == s.pool[h]
    IN  IF connection = NoConn
        THEN [s EXCEPT !.nconn = @ + 1,
                       !.conns[s.nconn + 1] = NewConnection(h, kl, ks),
                       !.pool[h] = s.nconn + 1]
        ELSE s

\* _ConnectionPool._get_connection
get_connection(s, h, kl, ks) ==
    LET connection == s.pool[h]
    IN  IF connection = NoConn \/ s.conns[connection].status = CLOSED
        THEN [s EXCEPT !.nconn = @ + 1,
                       !.conns[s.nconn + 1] = NewConnection(h, kl, ks),
                       !.pool[h] = s.nconn + 1]
        ELSE s

\* _ConnectionPool._add_downlink_view
add_downlink_view(s, t) ==
    LET v == t[2]
        vw == s.views[v]
        s1 == get_connection(s, vw.host, vw.keep_linked, vw.keep_synced)
        connection == s1.pool[vw.host]
        s2 == [s1 EXCEPT !.views[v].connection = connection, !.tasks[t].c = connection]
    IN  subscribe(s2, t)

\* _WSConnection._send_auth_message, _send_init_message
send_auth_message(s, t) ==
    IF s.conns[s.tasks[t].c].auth_message # None
    THEN WSConnection_send_message(s, t, "auth")
    ELSE send_init_message(s, t)

send_init_message(s, t) ==
    IF s.conns[s.tasks[t].c].init_message # None
    THEN WSConnection_send_message(s, t, "init")
    ELSE wait_for_messages(s, t)

\* _WSConnection._wait_for_messages: the handler of ConnectionClosed
RxExcept(s, t) == WSConnection_close(s, t, "rx_except")

RxAfterClose(s, t) ==
    IF should_reconnect(s.conns[s.tasks[t].c]) /\ retry_approves(s.strategy)
    THEN Suspend([s EXCEPT !.hist.reconnects[s.tasks[t].c] = TRUE], t, "rx_except", "retry")
    ELSE wait_for_messages(s, t)

RetryResumed(s, t) == WSConnection_open(retry_counted(s), t, "reopen")

\* a _wait_for_messages that also enters its loop on a RUNNING connection
wait_for_messages_running(s, t) ==
    LET c == s.tasks[t].c
    IN  IF s.conns[c].status \in {IDLE, RUNNING}
        THEN RxInner([s EXCEPT !.conns[c].status = RUNNING], t)
        ELSE Finish(s, t)

\* _WSConnection._wait_for_messages: the outer loop
wait_for_messages(s, t) ==
    LET c == s.tasks[t].c
    IN  IF s.conns[c].status = IDLE
        THEN RxInner([s EXCEPT !.conns[c].status = RUNNING], t)
        ELSE Finish(s, t)

\* one received frame: _Envelope._parse_recon and the dispatch by route
Dispatch(s, c, frame) ==
    LET s1 == [s EXCEPT !.conns[c].sent = Capped(@, "dispatch")]
        s2 == IF frame.tag = "event" /\ frame.route # ""
              THEN [s1 EXCEPT !.hist.dispatched[c] = Append(@, frame.body)]
              ELSE s1
    IN  IF frame.route # ""
        THEN pool_receive_message(s2, c, frame)
        ELSE host_receive_message(s2, c, frame)

\* _WSConnection._wait_for_messages: the body of the inner loop after recv()
\* returned a frame. An exception of _Envelope._parse_recon or of a handler is
\* not a ConnectionClosed: no handler of the coroutine catches it.
Received(s, t, frame) ==
    LET s1 == IF frame \in Junk \cup Unparsed
              THEN [s EXCEPT !.hist.junk_taken = @ + 1]
              ELSE s
    IN  IF frame \in Unparsed
        THEN Raise(s1, t)
        ELSE RxInner(Dispatch(s1, s.tasks[t].c, frame), t)

\* _WSConnection._wait_for_messages: the inner loop
RxInner(s, t) ==
    LET c == s.tasks[t].c
    IN  IF s.conns[c].status = RUNNING
        THEN CASE s.inbox[c] # <<>> ->
                    Received([s EXCEPT !.inbox[c] = Tail(@)], t, Head(s.inbox[c]))
               [] s.inbox[c] = <<>> /\ s.conns[c].websocket = "open" ->
                    Suspend(s, t, "rx", "recv")
               [] s.inbox[c] = <<>> /\ s.conns[c].websocket = "closed" -> RxExcept(s, t)
               [] OTHER -> Raise(s, t)
        ELSE wait_for_messages(s, t)

\* a receive loop that dispatches a frame queued in the socket before the
\* frame recv() returned
RecvResumed_queued_first(s, t) ==
    LET c == s.tasks[t].c
    IN  IF s.tasks[t].res = "closed"
        THEN RxExcept(s, t)
        ELSE IF s.inbox[c] = <<>>
             THEN Received([s EXCEPT !.tasks[t].frame = NoFrame], t, s.tasks[t].frame)
             ELSE LET s1 == [s EXCEPT !.tasks[t].frame = NoFrame,
                                      !.inbox[c] = <<s.tasks[t].frame>> \o Tail(@)]
                  IN  Received(s1, t, Head(s.inbox[c]))

\* recv() returned a frame or raised ConnectionClosed
RecvResumed(s, t) ==
    IF s.tasks[t].res = "closed"
    THEN RxExcept(s, t)
    ELSE LET s1 == [s EXCEPT !.tasks[t].frame = NoFrame]
         IN  Received(s1, t, s.tasks[t].frame)

AfterOpen(s, t, ctx) ==
    CASE ctx = "subscribe" -> register_downlink_view(s, t)
      [] ctx = "reopen" -> send_auth_message(s, t)
      [] OTHER -> SendWait(s, t, ctx)

AfterSend(s, t, ctx) ==
    CASE ctx = "establish" ->
            add_view_insert([s EXCEPT !.mgrs[s.tasks[t].m].status = OPEN], t)
      [] ctx = "auth" -> send_init_message(s, t)
      [] ctx = "init" -> wait_for_messages(s, t)
      [] OTHER -> Finish(s, t)

AfterClose(s, t, ctx) ==
    CASE ctx = "unsubscribe" -> RemoveTail(s, t)
      [] ctx = "remove_connection" -> Finish(s, t)
      [] ctx = "rx_except" -> RxAfterClose(s, t)

\* a send_message of the model that does not wait for the synced event
model_send_message_unsynced(s, t) ==
    LET m == s.views[t[2]].model
    IN  WSConnection_send_message([s EXCEPT !.tasks[t].m = m,
                                            !.tasks[t].c = s.mgrs[m].connection],
                                  t, "view_send")

\* ValueDownlinkModel.send_message
model_send_message(s, t) ==
    LET m == s.views[t[2]].model
        s1 == [s EXCEPT !.tasks[t].m = m, !.tasks[t].c = s.mgrs[m].connection]
    IN  IF s1.mgrs[m].synced
        THEN WSConnection_send_message(s1, t, "view_send")
        ELSE SuspendOnEvent(s1, t, "view_send", "synced")

\* ValueDownlinkView.send_message
view_send_message(s, t) ==
    IF s.views[t[2]].initialised
    THEN model_send_message(s, t)
    ELSE SuspendOnEvent(s, t, "view_send", "initialised")

\* ValueDownlinkModel.get_value: return self.value
get_value_return(s, t) ==
    Finish([s EXCEPT !.hist.got[t[2]] = Append(@, <<s.tasks[t].m, s.mgrs[s.tasks[t].m].value>>)], t)

\* get_value that does not wait for the synced event
get_value_unsynced(s, t) == get_value_return(s, t)

\* ValueDownlinkModel.get_value, the task of ValueDownlinkView.get(wait_sync=True)
get_value(s, t) ==
    IF s.mgrs[s.tasks[t].m].synced
    THEN get_value_return(s, t)
    ELSE SuspendOnEvent(s, t, "get_value", "synced")

\* SwimClient.__send_command
send_command(s, t, h, kl, ks) ==
    LET s1 == get_connection(s, h, kl, ks)
    IN  WSConnection_send_message([s1 EXCEPT !.tasks[t].c = s1.pool[h]], t, "command")

\* ValueDownlinkModel.__close
model_close(s, t) == Finish(cancel(s, <<"rx", t[2]>>), t)

\* ------------------------------------------------------------------ Init
NewView(h, r, kl, ks) ==
    [host |-> h, route |-> r, keep_linked |-> kl, keep_synced |-> ks,
     is_open |-> FALSE, initialised |-> FALSE, model |-> NoMgr, connection |-> NoConn,
     opens |-> 0, sets |-> 0, did_set_callback |-> None, kind |-> "value"]

\* ---------------------------------------------------------- recon codec
\* A str is a sequence of code points. ord, as of Python, of the characters
\* that the codec names and that the checked inputs are made of.
ord(ch) ==
    CASE ch = "-" -> 45 [] ch = "0" -> 48 [] ch = "9" -> 57 [] ch = "A" -> 65
      [] ch = "Z" -> 90 [] ch = "_" -> 95 [] ch = "a" -> 97 [] ch = "z" -> 122
      [] ch = " " -> 32 [] ch = "@" -> 64 [] ch = "(" -> 40 [] ch = ")" -> 41
      [] ch = "\"" -> 34 [] ch = ":" -> 58 [] ch = "," -> 44 [] ch = "{" -> 123
      [] ch = "}" -> 125 [] ch = "b" -> 98 [] ch = "e" -> 101 [] ch = "f" -> 102
      [] ch = "g" -> 103 [] ch = "l" -> 108 [] ch = "r" -> 114 [] ch = "s" -> 115
      [] ch = "t" -> 116 [] ch = "u" -> 117

\* a str literal, written character by character
Chars(q) == [i \in 1..Len(q) |-> ord(q[i])]

\* The argument of the classifiers is a str of one character or an int.
StrChar(n) == [is_str |-> TRUE, ord |-> n]
IntChar(n) == [is_str |-> FALSE, ord |-> n]

\* `if char:` a str of one character is true, an int is true unless it is 0
Truthy(char) == char.is_str \/ char.ord # 0

\* ReconUtils.to_ord
to_ord(char) == IntChar(char.ord)

\* ReconUtils.is_digit
is_digit(char) ==
    IF Truthy(char)
    THEN LET c == to_ord(char).ord IN ord("0") <= c /\ c <= ord("9")
    ELSE FALSE

\* ReconUtils.is_ident_start_char
is_ident_start_char(char) ==
    IF Truthy(char)
    THEN LET c == to_ord(char).ord
         IN  (ord("A") <= c /\ c <= ord("Z")) \/ c = ord("_") \/ (ord("a") <= c /\ c <= ord("z"))
    ELSE FALSE

\* an is_ident_char that takes no digit
is_ident_char_no_digit(char) ==
    IF Truthy(char)
    THEN LET c == to_ord(char) IN c.ord = ord("-") \/ is_ident_start_char(c)
    ELSE FALSE

\* ReconUtils.is_ident_char
is_ident_char(char) ==
    IF Truthy(char)
    THEN LET c == to_ord(char)
         IN  c.ord = ord("-") \/ is_digit(c) \/ is_ident_start_char(c)
    ELSE FALSE

\* ReconUtils.is_ident
is_ident(value) ==
    IF Len(value) = 0
    THEN FALSE
    ELSE IF ~is_ident_start_char(StrChar(value[1]))
         THEN FALSE
         ELSE \A i \in 1..Len(value) : is_ident_char(StrChar(value[i]))

\* The values of the structures package, and the fields of a record.
Value(t, s, n, b, items) == [t |-> t, s |-> s, n |-> n, b |-> b, items |-> items]
Extant_get_extant == Value("Extant", <<>>, 0, FALSE, <<>>)
Absent_get_absent == Value("Absent", <<>>, 0, FALSE, <<>>)
Text(s) == Value("Text", s, 0, FALSE, <<>>)
Num(n) == Value("Num", <<>>, n, FALSE, <<>>)
Bool(b) == Value("Bool", <<>>, 0, b, <<>>)
Record(items) == Value("Record", <<>>, 0, FALSE, items)
Attr(key, value) == [t |-> "Attr", key |-> key, value |-> value]
Slot(key, value) == [t |-> "Slot", key |-> key, value |-> value]

\* Value.size: the number of items, none but in a record
size(value) == IF value.t = "Record" THEN Len(value.items) ELSE 0

\* What a writer gives back: an OutputMessage, None, or an exception.
Out(message) == [kind |-> "msg", message |-> message]
NoOutput == [kind |-> "none", message |-> <<>>]
Raised == [kind |-> "raise", message |-> <<>>]

\* str(int) of a natural number
RECURSIVE str(_)
str(n) == IF n < 10 THEN <<ord("0") + n>> ELSE str(n \div 10) \o <<ord("0") + (n % 10)>>

\* StringWriter.write
StringWriter_write(value) == Out(<<ord("\"")>> \o value \o <<ord("\"")>>)

\* IdentWriter.write
IdentWriter_write(value) == Out(value)

\* NumberWriter.write: `if value:`
NumberWriter_write(value) == IF value # 0 THEN Out(str(value)) ELSE Out(<<>>)

\* BoolWriter.write
BoolWriter_write(value) ==
    IF value THEN Out(Chars(<<"t", "r", "u", "e">>)) ELSE Out(Chars(<<"f", "a", "l", "s", "e">>))

\* ReconWriter.write_text
write_text(value) ==
    IF is_ident(value) THEN IdentWriter_write(value) ELSE StringWriter_write(value)

RECURSIVE write_value(_), write_record(_), write_item(_), BlockWriter_write(_, _, _, _, _)
RECURSIVE AttrWriter_write(_, _), SlotWriter_write(_, _)

\* ReconWriter.write_value: no branch for Extant, which gives None
write_value(value) ==
    CASE value.t = "Record" -> write_record(value)
      [] value.t = "Text" -> write_text(value.s)
      [] value.t = "Num" -> NumberWriter_write(value.n)
      [] value.t = "Bool" -> BoolWriter_write(value.b)
      [] value.t = "Absent" -> Out(<<>>)
      [] OTHER -> NoOutput

\* ReconWriter.write_record: None for a record without items
write_record(record) ==
    IF size(record) > 0
    THEN BlockWriter_write(record.items, 1, <<>>, TRUE, FALSE)
    ELSE NoOutput

\* ReconWriter.write_item: output.message, an AttributeError when output is None
write_item(item) ==
    LET output == CASE item.t = "Attr" -> AttrWriter_write(item.key, item.value)
                    [] item.t = "Slot" -> SlotWriter_write(item.key, item.value)
                    [] OTHER -> write_value(item)
    IN  IF output.kind = "msg" THEN output ELSE Raised

\* BlockWriter.write: the loop from item i on, and the closing brace
BlockWriter_write(items, i, output, first, in_braces) ==
    IF i > Len(items)
    THEN Out(IF in_braces THEN output \o <<ord("}")>> ELSE output)
    ELSE LET item == items[i]
             plain == item.t \notin {"Slot", "Record"}
             comma == ~plain /\ ~first
             brace == /\ ~plain /\ first /\ item.t = "Slot"
                      /\ Len(output) > 0 /\ output[Len(output)] # ord("(")
             out1 == IF comma THEN output \o <<ord(",")>>
                     ELSE IF brace THEN output \o <<ord("{")>> ELSE output
             item_text == write_item(item)
         IN  IF item_text.kind = "raise"
             THEN Raised
             ELSE BlockWriter_write(items, i + 1, out1 \o item_text.message,
                                    IF plain THEN first ELSE FALSE, in_braces \/ brace)

\* AttrWriter.write
AttrWriter_write(key, value) ==
    LET key_text == write_value(key)
        out1 == <<ord("@")>> \o key_text.message
    IN  IF key_text.kind = "raise"
        THEN Raised
        ELSE IF value # Extant_get_extant
             THEN LET out2 == out1 \o <<ord("(")>>
                      value_text == write_value(value)
                  IN  IF value_text.kind = "raise"
                      THEN Raised
                      ELSE IF size(value) = 0
                           THEN Out(out2)
                           ELSE Out(out2 \o value_text.message \o <<ord(")")>>)
             ELSE Out(out1)

\* SlotWriter.write
SlotWriter_write(key, value) ==
    LET key_text == write_value(key)
        value_text == write_value(value)
    IN  IF key_text.kind = "raise" \/ value_text.kind = "raise"
        THEN Raised
        ELSE Out(key_text.message \o <<ord(":")>> \o value_text.message)

\* ReconUtils.is_space
is_space(char) ==
    IF Truthy(char)
    THEN LET c == to_ord(char).ord IN c = ord(" ") \/ c = 9
    ELSE FALSE

\* The longest prefix of q whose characters all satisfy Test: the parser reads
\* a token with head() and step() until a character is not of the token.
TakeWhile(q, Test(_)) ==
    LET stops == {i \in 1..Len(q) : ~Test(StrChar(q[i]))}
    IN  IF stops = {}
        THEN q
        ELSE SubSeq(q, 1, (CHOOSE i \in stops : \A j \in stops : i <= j) - 1)

\* int() of a str of decimal digits, leading zeros tolerated
RECURSIVE int(_)
int(q) == IF q = <<>> THEN 0 ELSE 10 * int(SubSeq(q, 1, Len(q) - 1)) + (q[Len(q)] - ord("0"))

\* ReconParser.parse_literal on an empty builder, for the literals: spaces are
\* skipped, the empty input is Absent, a quote starts a string that ends at the
\* next quote or at the end of the input, an identifier is a Text unless it is
\* true or false, digits are a number.
parse_literal(message) ==
    LET q == SubSeq(message, Len(TakeWhile(message, is_space)) + 1, Len(message))
        rest == SubSeq(q, 2, Len(q))
        NotQuote(char) == char.ord # ord("\"")
    IN  CASE q = <<>> -> Absent_get_absent
          [] q # <<>> /\ q[1] = ord("\"") -> Text(TakeWhile(rest, NotQuote))
          [] q # <<>> /\ is_ident_start_char(StrChar(q[1])) ->
                LET word == TakeWhile(q, is_ident_char)
                IN  CASE word = Chars(<<"t", "r", "u", "e">>) -> Bool(TRUE)
                      [] word = Chars(<<"f", "a", "l", "s", "e">>) -> Bool(FALSE)
                      [] OTHER -> Text(word)
          [] q # <<>> /\ is_digit(StrChar(q[1])) -> Num(int(TakeWhile(q, is_digit)))
          [] OTHER -> Absent_get_absent

\* Values that the parser produces from a literal.
Literals ==
    {Absent_get_absent, Text(<<>>), Text(Chars(<<"a">>)), Text(Chars(<<"a", " ", "b">>)),
     Text(Chars(<<"_", "-", "9">>)), Num(0), Num(7), Num(12), Bool(TRUE), Bool(FALSE)}

\* The arguments given to the codec: strs over code points at the edges
\* of the character classes, and attributes of atoms and of small records.
Alphabet ==
    {0, ord("-"), ord("-") + 2, ord("0"), ord("9"), ord(":"), ord("@"), ord("A"), ord("Z"),
     ord("Z") + 1, ord("_"), ord("_") + 1, ord("a"), ord("z"), ord("{")}

Strs == UNION {[1..n -> Alphabet] : n \in 0..MaxText}

Atoms ==
    {Extant_get_extant, Absent_get_absent, Text(<<>>), Text(Chars(<<"a">>)),
     Text(Chars(<<"a", " ", "b">>)), Num(0), Num(7), Bool(TRUE), Bool(FALSE)}

Items ==
    Atoms \cup {Record(<<>>)}
          \cup {Slot(Text(Chars(<<"a">>)), v) : v \in {Num(7), Text(Chars(<<"a">>))}}
          \cup {Attr(Text(Chars(<<"b">>)), v) : v \in {Extant_get_extant, Num(7), Record(<<>>)}}

Values == Atoms \cup {Record(q) : q \in UNION {[1..n -> Items] : n \in 0..MaxItems}}

Keys == {Text(Chars(<<"t", "a", "g">>)), Text(Chars(<<"a", " ", "b">>))}

\* recon before a call: the function to call and its arguments
NoRecon ==
    [op |-> None, text |-> <<>>, key |-> Absent_get_absent, value |-> Absent_get_absent,
     done |-> FALSE, ident |-> FALSE, output |-> NoOutput, parsed |-> Absent_get_absent]

ReconInputs ==
    {[NoRecon EXCEPT !.op = "is_ident", !.text = s] : s \in Strs}
        \cup {[NoRecon EXCEPT !.op = "write_attr", !.key = k, !.value = v] :
                    k \in Keys, v \in Values}
        \cup {[NoRecon EXCEPT !.op = "round_trip", !.value = v] : v \in Literals}

\* The state after construction of the client and of the views, before any open():
\* the facade has chosen the retry strategy of the pool (one of kinds) and the
\* keep_linked and keep_synced flags of each view (among flags); each view has
\* been given its host (among hosts) and its lane (among lanes).
ConstructedOn(strategies, flags, lanes, kinds, inputs, hosts) ==
    /\ recon \in inputs
    /\ pool = [h \in Hosts |-> NoConn]
    /\ strategy \in strategies
    /\ nconn = 0
    /\ conns = [c \in ConnIds |-> NewConnection("h1", FALSE, FALSE)]
    /\ nmgr = 0
    /\ mgrs = [m \in MgrIds |-> NewManager(NoConn, "n/a")]
    /\ views \in {[v \in Views |-> [NewView(h[v], l[v], f[v][1], f[v][2]) EXCEPT !.kind = k[v]]] :
                        l \in lanes, f \in [Views -> flags], k \in kinds, h \in hosts}
    /\ tasks = [t \in TaskIds |-> NoTask]
    /\ ready = <<>>
    /\ waiting = <<>>
    /\ inbox = [c \in ConnIds |-> <<>>]
    /\ hist = [did_open |-> [v \in Views |-> 0], did_close |-> [v \in Views |-> 0],
               subscribes |-> [v \in Views |-> 0], unsubscribes |-> [v \in Views |-> 0],
               did_set |-> [v \in Views |-> <<>>],
               set_value |-> [m \in MgrIds |-> <<>>],
               synced_frames |-> [m \in MgrIds |-> 0],
               arrived |-> [c \in ConnIds |-> <<>>],
               dispatched |-> [c \in ConnIds |-> <<>>],
               written |-> [v \in Views |-> <<>>],
               got |-> [v \in Views |-> <<>>],
               closed_asleep |-> [c \in ConnIds |-> FALSE],
               syncs |-> 0, models |-> 0, drops |-> 0, fails |-> 0, events |-> 0,
               late_events |-> 0, commands |-> 0,
               reconnects |-> [c \in ConnIds |-> FALSE],
               calls |-> 0, refused |-> 0, last_call |-> NoCall,
               junk |-> 0, junk_taken |-> 0]

\* Every view on the first host.
ConstructedAll(strategies, flags, lanes, kinds, inputs) ==
    ConstructedOn(strategies, flags, lanes, kinds, inputs, {[v \in Views |-> "h1"]})

\* A client that calls no codec function outside its tasks.
ConstructedOf(strategies, flags, lanes, kinds) ==
    ConstructedAll(strategies, flags, lanes, kinds, {NoRecon})

\* Value downlink views, the only kind of view of the package.
ConstructedWith(strategies, flags, lanes) ==
    ConstructedOf(strategies, flags, lanes, {[v \in Views |-> "value"]})

\* Every view on the lane "n/a" of the host, the strategy with RetriesLimit.
Constructed(kinds, flags) ==
    ConstructedWith([kind : kinds, retries : {0}, limit : {RetriesLimit}], flags,
                    {[v \in Views |-> "n/a"]})

\* The default configuration: RetryStrategy() (the default argument of
\* _ConnectionPool.__init__) and views that ask for no reconnection.
Init == Constructed({"RetryStrategy"}, {<<FALSE, FALSE>>})

\* --------------------------------------------------- the user's thread
\* Tasks that may still construct a connection, or a manager.
MayConstruct == Cardinality({t \in TaskIds : t[1] \in {"add", "cmd"} /\ tasks[t].pt = "start"})

MayRegister ==
    Cardinality({t \in TaskIds : /\ t[1] = "add"
                                 /\ \/ tasks[t].pt = "start"
                                    \/ ~Finished(tasks[t]) /\ tasks[t].ctx = "subscribe"})

\* ValueDownlinkView.open
Open(v) ==
    /\ ~views[v].is_open
    /\ views[v].opens < MaxOpens
    /\ Finished(tasks[<<"add", v>>])
    /\ nconn + MayConstruct < MaxConn
    /\ nmgr + MayRegister < MaxMgr
    /\ LET s1 == [St EXCEPT !.views[v].is_open = TRUE, !.views[v].opens = @ + 1]
       IN  Commit(schedule_task(s1, <<"add", v>>, NoConn, NoMgr))

\* ValueDownlinkView.close
Close(v) ==
    /\ views[v].is_open
    /\ Finished(tasks[<<"rem", v>>])
    /\ LET s1 == [St EXCEPT !.views[v].is_open = FALSE]
       IN  Commit(schedule_task(s1, <<"rem", v>>, NoConn, NoMgr))

\* ValueDownlinkView.set
Set(v) ==
    /\ views[v].is_open
    /\ views[v].sets < MaxSets
    /\ LET s1 == [St EXCEPT !.views[v].sets = @ + 1]
       IN  Commit(schedule_task(s1, <<"snd", v, s1.views[v].sets>>, NoConn, NoMgr))

\* the first set() of a view
SetOnce(v) == views[v].sets = 0 /\ Set(v)

\* ValueDownlinkView.get(wait_sync=True): schedules self.model.get_value
Get(v) ==
    /\ views[v].is_open
    /\ views[v].model # NoMgr
    /\ Len(hist.got[v]) < MaxGets
    /\ Finished(tasks[<<"get", v>>])
    /\ Commit(schedule_task(St, <<"get", v>>, NoConn, views[v].model))

\* ---- the methods of a view as the user's thread calls them in any state of
\* the view: the branch that does nothing, and the branch that raises, included.
\* hist.last_call keeps what the caller saw of the last call, hist.refused counts
\* the calls that raised RuntimeError.
Called(s, op, v, raised) ==
    [s EXCEPT !.hist.calls = @ + 1,
              !.hist.refused = IF raised = "RuntimeError" THEN @ + 1 ELSE @,
              !.hist.last_call = [op |-> op, v |-> v, was_open |-> views[v].is_open,
                                  raised |-> raised]]

\* ValueDownlinkView.open: `if not self.is_open:`
view_open(s, v) ==
    IF ~s.views[v].is_open
    THEN schedule_task([s EXCEPT !.views[v].is_open = TRUE, !.views[v].opens = @ + 1],
                       <<"add", v>>, NoConn, NoMgr)
    ELSE s

\* a close() that schedules the removal whatever is_open says
view_close_unguarded(s, v) ==
    schedule_task([s EXCEPT !.views[v].is_open = FALSE], <<"rem", v>>, NoConn, NoMgr)

\* ValueDownlinkView.close: `if self.is_open:`
view_close(s, v) ==
    IF s.views[v].is_open
    THEN schedule_task([s EXCEPT !.views[v].is_open = FALSE], <<"rem", v>>, NoConn, NoMgr)
    ELSE s

\* ValueDownlinkView.set: the send_message task, or RuntimeError('Link is not open!')
view_set(s, v) ==
    IF s.views[v].is_open
    THEN LET s1 == [s EXCEPT !.views[v].sets = @ + 1]
         IN  Called(schedule_task(s1, <<"snd", v, s1.views[v].sets>>, NoConn, NoMgr),
                    "set", v, None)
    ELSE Called(s, "set", v, "RuntimeError")

\* ValueDownlinkView.get(wait_sync=True): the get_value task, or RuntimeError
view_get(s, v) ==
    IF s.views[v].is_open
    THEN Called(schedule_task(s, <<"get", v>>, NoConn, s.views[v].model), "get", v, None)
    ELSE Called(s, "get", v, "RuntimeError")

\* a did_set() that stores the argument before it tests it
did_set_stores_first(s, v, f) ==
    LET s1 == [s EXCEPT !.views[v].did_set_callback = f]
    IN  IF f \in Callables THEN Called(s1, "did_set", v, None)
                           ELSE Called(s1, "did_set", v, "TypeError")

\* ValueDownlinkView.did_set: a coroutine function or a Callable is stored,
\* anything else raises TypeError
did_set(s, v, f) ==
    IF f \in Callables
    THEN Called([s EXCEPT !.views[v].did_set_callback = f], "did_set", v, None)
    ELSE Called(s, "did_set", v, "TypeError")

\* One task of each kind per view is in flight at a time, as in Open and Close.
CallOpen(v) ==
    /\ hist.calls < MaxCalls
    /\ \/ views[v].is_open
       \/ /\ views[v].opens < MaxOpens
          /\ Finished(tasks[<<"add", v>>])
          /\ nconn + MayConstruct < MaxConn
          /\ nmgr + MayRegister < MaxMgr
    /\ Commit(Called(view_open(St, v), "open", v, None))

CallClose(v) ==
    /\ hist.calls < MaxCalls
    /\ ~views[v].is_open \/ Finished(tasks[<<"rem", v>>])
    /\ Commit(Called(view_close(St, v), "close", v, None))

CallSet(v) ==
    /\ hist.calls < MaxCalls
    /\ ~views[v].is_open \/ views[v].sets < MaxSets
    /\ Commit(view_set(St, v))

CallGet(v) ==
    /\ hist.calls < MaxCalls
    /\ \/ ~views[v].is_open
       \/ /\ views[v].model # NoMgr
          /\ Len(hist.got[v]) < MaxGets
          /\ Finished(tasks[<<"get", v>>])
    /\ Commit(view_get(St, v))

CallDidSet(v) ==
    /\ hist.calls < MaxCalls
    /\ \E f \in Callables \cup NonCallables : Commit(did_set(St, v, f))

\* SwimClient.command
Command ==
    /\ hist.commands < MaxCommands
    /\ Finished(tasks[<<"cmd", 0>>])
    /\ nconn + MayConstruct < MaxConn
    /\ LET s1 == [St EXCEPT !.hist.commands = @ + 1]
       IN  Commit(schedule_task(s1, <<"cmd", 0>>, NoConn, NoMgr))

\* _WSConnection._set_auth_message, _set_init_message, called by the facade
SetAuthMessage(c) ==
    /\ c <= nconn
    /\ conns[c].auth_message = None
    /\ Commit([St EXCEPT !.conns[c].auth_message = "auth"])

SetInitMessage(c) ==
    /\ c <= nconn
    /\ conns[c].init_message = None
    /\ Commit([St EXCEPT !.conns[c].init_message = "init"])

\* ------------------------------------------ the network and the timers
Blocked(t, pt) == tasks[t].pt = pt /\ ~tasks[t].cancel /\ ~Contains(ready, t)

Completed(t, res) == Commit([St EXCEPT !.tasks[t].res = res, !.ready = Append(@, t)])

\* websockets.connect returns
HandshakeOk(t) == Blocked(t, "connect") /\ Completed(t, "ok")

\* websockets.connect raises
HandshakeFail(t) ==
    /\ Blocked(t, "connect")
    /\ hist.fails < MaxFails
    /\ Commit([St EXCEPT !.tasks[t].res = "fail", !.ready = Append(@, t),
                         !.hist.fails = @ + 1])

\* asyncio.sleep of a retry strategy returns
SleepDone(t) == (Blocked(t, "sleep") \/ Blocked(t, "retry")) /\ Completed(t, "ok")

\* websocket.send returns
SendDone(t) == Blocked(t, "send") /\ Completed(t, "ok")

\* websocket.close returns
CloseDone(t) == Blocked(t, "close") /\ Completed(t, "ok")

Frames ==
    [tag : {"linked", "synced"}, route : Routes, body : {None}]
        \cup [tag : {"event"}, route : Routes, body : {"42", Absent}]

\* The lanes the views of the client are downlinks of.
Lanes == {views[v].route : v \in Views}

\* The server sends a frame on the open socket of c: a waiting recv() returns it,
\* otherwise it is queued in the socket.
ServerSend(c, frame) ==
    /\ c <= nconn
    /\ conns[c].websocket = "open"
    /\ frame.tag = "event" /\ frame.route # "" => hist.events < MaxEvents
    /\ frame \in Junk \cup Unparsed => hist.junk < MaxJunk
    /\ LET ws == RecvWaiters(St, c)
           opened == \A v \in Views : hist.did_open[v] > 0
           s0 == IF frame \in Junk \cup Unparsed THEN [St EXCEPT !.hist.junk = @ + 1] ELSE St
           s1 == IF frame.tag = "event" /\ frame.route # ""
                 THEN [s0 EXCEPT !.hist.events = @ + 1,
                                 !.hist.late_events = IF opened THEN @ + 1 ELSE @,
                                 !.hist.arrived[c] = Append(@, frame.body)]
                 ELSE s0
       IN  IF ws # {}
           THEN LET t == CHOOSE x \in ws : TRUE
                IN  Commit([s1 EXCEPT !.tasks[t].res = "frame", !.tasks[t].frame = frame,
                                      !.ready = Append(@, t)])
           ELSE /\ Len(inbox[c]) < MaxInbox
                /\ Commit([s1 EXCEPT !.inbox[c] = Append(@, frame)])

\* The peer closes the socket of c.
Drop(c) ==
    /\ c <= nconn
    /\ conns[c].websocket = "open"
    /\ hist.drops < MaxDrops
    /\ Commit(SocketClosed([St EXCEPT !.hist.drops = @ + 1], c))

\* ------------------------------------------------------- the event loop
Cancelled(s, t) == Ended(s, t, "cancelled")

\* The task at the head of the queue runs up to its next suspension.
Resume(s, t, pt) ==
    CASE pt \in {"connect", "sleep"} -> OpenResumed(s, t, pt)
      [] pt = "connected" -> SendNow(s, t, s.tasks[t].ctx)
      [] pt = "send" -> AfterSend(s, t, s.tasks[t].ctx)
      [] pt = "close" -> CloseResumed(s, t)
      [] pt = "retry" -> RetryResumed(s, t)
      [] pt = "recv" -> RecvResumed(s, t)
      [] pt = "initialised" -> model_send_message(s, t)
      [] pt = "synced" /\ s.tasks[t].ctx = "get_value" -> get_value_return(s, t)
      [] pt = "synced" /\ s.tasks[t].ctx # "get_value" ->
            WSConnection_send_message(s, t, "view_send")

Runnable(t) == ready # <<>> /\ Head(ready) = t

Step(t, Start(_, _)) ==
    LET s == [St EXCEPT !.ready = Tail(@), !.tasks[t].pt = "run"]
    IN  CASE tasks[t].cancel -> Cancelled(s, t)
          [] ~tasks[t].cancel /\ tasks[t].pt = "start" -> Start(s, t)
          [] OTHER -> Resume(s, t, tasks[t].pt)

\* the task of SwimClient.add_downlink_view(view)
RunAdd(v) ==
    /\ Runnable(<<"add", v>>)
    /\ Commit(Step(<<"add", v>>, add_downlink_view))

\* the task of SwimClient.remove_downlink_view(view)
RunRemove(v) ==
    /\ Runnable(<<"rem", v>>)
    /\ Commit(Step(<<"rem", v>>, remove_downlink_view))

\* the task of ValueDownlinkView.send_message(message)
RunSend(v) ==
    \E k \in 1..MaxSets :
        /\ Runnable(<<"snd", v, k>>)
        /\ Commit(Step(<<"snd", v, k>>, view_send_message))

\* the task of ValueDownlinkModel.get_value() that view v scheduled
RunGet(v) ==
    /\ Runnable(<<"get", v>>)
    /\ Commit(Step(<<"get", v>>, get_value))

\* the task of connection._wait_for_messages() that the model of manager m scheduled
RunReceive(m) ==
    /\ Runnable(<<"rx", m>>)
    /\ Commit(Step(<<"rx", m>>, wait_for_messages))

\* the task of ValueDownlinkModel.__close of the model of manager m
RunModelClose(m) ==
    /\ Runnable(<<"mcl", m>>)
    /\ Commit(Step(<<"mcl", m>>, model_close))

\* the task of SwimClient.__send_command
RunCommand ==
    /\ Runnable(<<"cmd", 0>>)
    /\ \E h \in CommandHosts, kl \in BOOLEAN, ks \in BOOLEAN :
          LET Start(s, t) == send_command(s, t, h, kl, ks)
          IN  Commit(Step(<<"cmd", 0>>, Start))

\* ------------------------------------------------------------ behaviours
\* Views are opened and closed, handshakes and socket writes and closes complete,
\* and the event loop runs the tasks.
Lifecycle ==
    \/ \E v \in Views : Open(v)
    \/ \E v \in Views : Close(v)
    \/ \E t \in TaskIds : HandshakeOk(t)
    \/ \E t \in TaskIds : SendDone(t)
    \/ \E t \in TaskIds : CloseDone(t)
    \/ \E v \in Views : RunAdd(v)
    \/ \E v \in Views : RunRemove(v)
    \/ \E m \in MgrIds : RunReceive(m)
    \/ \E m \in MgrIds : RunModelClose(m)

\* ... and handshakes fail and the peer closes sockets.
Next ==
    \/ Lifecycle
    \/ \E t \in TaskIds : HandshakeFail(t)
    \/ \E c \in ConnIds : Drop(c)

Spec == Init /\ [][Next]_vars

\* A client that also sends commands to the host.
CommandNext ==
    \/ Lifecycle
    \/ Command
    \/ RunCommand

CommandSpec == Init /\ [][CommandNext]_vars

\* Views are opened and the lane publishes an event.
EventNext ==
    \/ \E v \in Views : Open(v)
    \/ \E t \in TaskIds : HandshakeOk(t)
    \/ \E t \in TaskIds : SendDone(t)
    \/ \E v \in Views : RunAdd(v)
    \/ \E m \in MgrIds : RunReceive(m)
    \/ \E c \in ConnIds, r \in Lanes : ServerSend(c, [tag |-> "event", route |-> r, body |-> "42"])

EventSpec == Init /\ [][EventNext]_vars

\* A pool with IntervalStrategy(retries_limit = RetriesLimit) and views with
\* keep_synced: sockets drop and the receive loop reconnects, the lane answers
\* the sync and the first view sets the value of the lane.
ReconnectInit == Constructed({"IntervalStrategy"}, {<<FALSE, TRUE>>})

ReconnectNext ==
    \/ \E v \in Views : Open(v)
    \/ SetOnce("v1")
    \/ \E t \in TaskIds : HandshakeOk(t)
    \/ \E t \in TaskIds : SendDone(t)
    \/ \E t \in TaskIds : CloseDone(t)
    \/ \E t \in TaskIds : SleepDone(t)
    \/ \E c \in ConnIds : Drop(c)
    \/ \E c \in ConnIds, r \in Lanes : ServerSend(c, [tag |-> "synced", route |-> r, body |-> None])
    \/ \E v \in Views : RunAdd(v)
    \/ RunSend("v1")
    \/ \E m \in MgrIds : RunReceive(m)

ReconnectSpec == ReconnectInit /\ [][ReconnectNext]_vars

\* Views are opened and read, and the server sends linked and synced frames on
\* the lanes, in any order.
SyncNext ==
    \/ \E v \in Views : Open(v)
    \/ \E v \in Views : Get(v)
    \/ \E t \in TaskIds : HandshakeOk(t)
    \/ \E t \in TaskIds : SendDone(t)
    \/ \E v \in Views : RunAdd(v)
    \/ \E v \in Views : RunGet(v)
    \/ \E m \in MgrIds : RunReceive(m)
    \/ \E c \in ConnIds, frame \in Frames :
          frame.route \in Lanes /\ frame.tag # "event" /\ ServerSend(c, frame)

SyncSpec == Init /\ [][SyncNext]_vars

\* Views are opened and the lane publishes events with any body.
ValueNext ==
    \/ \E v \in Views : Open(v)
    \/ \E t \in TaskIds : HandshakeOk(t)
    \/ \E t \in TaskIds : SendDone(t)
    \/ \E v \in Views : RunAdd(v)
    \/ \E m \in MgrIds : RunReceive(m)
    \/ \E c \in ConnIds, frame \in Frames :
          frame.route \in Lanes /\ frame.tag = "event" /\ ServerSend(c, frame)

ValueSpec == Init /\ [][ValueNext]_vars

\* The first view is opened and set several times while the lane answers the sync.
SendNext ==
    \/ Open("v1")
    \/ Set("v1")
    \/ \E t \in TaskIds : HandshakeOk(t)
    \/ \E t \in TaskIds : SendDone(t)
    \/ RunAdd("v1")
    \/ RunSend("v1")
    \/ \E m \in MgrIds : RunReceive(m)
    \/ \E c \in ConnIds, r \in Lanes : ServerSend(c, [tag |-> "synced", route |-> r, body |-> None])

SendSpec == Init /\ [][SendNext]_vars

\* Two views on different lanes of the same host, opened and closed.
LanesInit ==
    ConstructedWith([kind : {"RetryStrategy"}, retries : {0}, limit : {RetriesLimit}],
                    {<<FALSE, FALSE>>}, {[v \in Views |-> IF v = "v1" THEN "n/a" ELSE "n/b"]})

LanesSpec == LanesInit /\ [][Lifecycle]_vars

\* A pool with the default RetryStrategy or an IntervalStrategy and a view, with
\* or without keep_synced, that is opened and closed while handshakes fail and
\* retries sleep.
RetryNext ==
    \/ Open("v1")
    \/ Close("v1")
    \/ \E t \in TaskIds : HandshakeOk(t)
    \/ \E t \in TaskIds : HandshakeFail(t)
    \/ \E t \in TaskIds : SleepDone(t)
    \/ \E t \in TaskIds : SendDone(t)
    \/ \E t \in TaskIds : CloseDone(t)
    \/ RunAdd("v1")
    \/ RunRemove("v1")
    \/ \E m \in MgrIds : RunReceive(m)
    \/ \E m \in MgrIds : RunModelClose(m)

RetryInit ==
    Constructed({"RetryStrategy", "IntervalStrategy"}, {<<FALSE, FALSE>>, <<FALSE, TRUE>>})

RetrySpec == RetryInit /\ [][RetryNext]_vars

\* A pool with IntervalStrategy, with or without a retries_limit, and views with
\* keep_synced that are opened while handshakes fail and sockets drop.
BudgetInit ==
    ConstructedWith([kind : {"IntervalStrategy"}, retries : {0}, limit : {RetriesLimit, NoLimit}],
                    {<<FALSE, TRUE>>}, {[v \in Views |-> "n/a"]})

BudgetNext ==
    \/ \E v \in Views : Open(v)
    \/ \E t \in TaskIds : HandshakeOk(t)
    \/ \E t \in TaskIds : HandshakeFail(t)
    \/ \E t \in TaskIds : SendDone(t)
    \/ \E t \in TaskIds : CloseDone(t)
    \/ \E t \in TaskIds : SleepDone(t)
    \/ \E c \in ConnIds : Drop(c)
    \/ \E v \in Views : RunAdd(v)
    \/ \E m \in MgrIds : RunReceive(m)

BudgetSpec == BudgetInit /\ [][BudgetNext]_vars

\* Two views with keep_synced on two lanes of one host, a pool with the default
\* RetryStrategy or an IntervalStrategy: the views are opened, the first is set,
\* the peer closes sockets, the receive loop reconnects and sends open the
\* connection again.
LoopsInit ==
    ConstructedWith([kind : {"RetryStrategy", "IntervalStrategy"}, retries : {0},
                     limit : {RetriesLimit}],
                    {<<FALSE, TRUE>>}, {[v \in Views |-> IF v = "v1" THEN "n/a" ELSE "n/b"]})

LoopsNext ==
    \/ \E v \in Views : Open(v)
    \/ SetOnce("v1")
    \/ \E t \in TaskIds : HandshakeOk(t)
    \/ \E t \in TaskIds : SendDone(t)
    \/ \E t \in TaskIds : CloseDone(t)
    \/ \E t \in TaskIds : SleepDone(t)
    \/ \E c \in ConnIds : Drop(c)
    \/ \E c \in ConnIds : ServerSend(c, [tag |-> "synced", route |-> "n/a", body |-> None])
    \/ \E v \in Views : RunAdd(v)
    \/ RunSend("v1")
    \/ \E m \in MgrIds : RunReceive(m)

LoopsSpec == LoopsInit /\ [][LoopsNext]_vars

\* ValueDownlinkView.close called while the add task of the view awaits the
\* handshake, the connected signal or the write of the sync
CloseEarly(v) ==
    /\ tasks[<<"add", v>>].pt \in {"connect", "connected", "send"}
    /\ Close(v)

\* Views are opened, and closed only while their add task is in progress.
EarlyNext ==
    \/ \E v \in Views : Open(v)
    \/ \E v \in Views : CloseEarly(v)
    \/ \E t \in TaskIds : HandshakeOk(t)
    \/ \E t \in TaskIds : SendDone(t)
    \/ \E t \in TaskIds : CloseDone(t)
    \/ \E v \in Views : RunAdd(v)
    \/ \E v \in Views : RunRemove(v)
    \/ \E m \in MgrIds : RunReceive(m)
    \/ \E m \in MgrIds : RunModelClose(m)

EarlySpec == Init /\ [][EarlyNext]_vars

\* A pool with an ExponentialStrategy or an IntervalStrategy of the same
\* retries_limit and a view with keep_synced, opened and closed while handshakes
\* fail and retries sleep: no two calls of retry() overlap.
ExponentialInit ==
    Constructed({"ExponentialStrategy", "IntervalStrategy"}, {<<FALSE, TRUE>>})

ExponentialSpec == ExponentialInit /\ [][RetryNext]_vars

\* A pool with an IntervalStrategy and two views with keep_synced on two hosts,
\* opened while handshakes fail, retries sleep and sockets drop.
HostsInit ==
    ConstructedOn([kind : {"IntervalStrategy"}, retries : {0}, limit : {RetriesLimit}],
                  {<<FALSE, TRUE>>}, {[v \in Views |-> "n/a"]}, {[v \in Views |-> "value"]},
                  {NoRecon}, {[v \in Views |-> IF v = "v1" THEN "h1" ELSE "h2"]})

HostsSpec == HostsInit /\ [][BudgetNext]_vars

\* The first view is opened, set and closed while the lane answers the sync and
\* the peer closes the socket.
WriteNext ==
    \/ Open("v1")
    \/ Close("v1")
    \/ Set("v1")
    \/ \E t \in TaskIds : HandshakeOk(t)
    \/ \E t \in TaskIds : SendDone(t)
    \/ \E t \in TaskIds : CloseDone(t)
    \/ \E c \in ConnIds : Drop(c)
    \/ RunAdd("v1")
    \/ RunRemove("v1")
    \/ RunSend("v1")
    \/ \E m \in MgrIds : RunReceive(m)
    \/ \E m \in MgrIds : RunModelClose(m)
    \/ \E c \in ConnIds, r \in Lanes : ServerSend(c, [tag |-> "synced", route |-> r, body |-> None])

WriteSpec == Init /\ [][WriteNext]_vars

\* The user's thread calls the methods of the first view in any order, whatever
\* the state of the view, while the loop runs the tasks that the calls schedule.
ApiNext ==
    \/ CallOpen("v1")
    \/ CallClose("v1")
    \/ CallSet("v1")
    \/ CallGet("v1")
    \/ CallDidSet("v1")
    \/ \E t \in TaskIds : HandshakeOk(t)
    \/ \E t \in TaskIds : SendDone(t)
    \/ \E t \in TaskIds : CloseDone(t)
    \/ RunAdd("v1")
    \/ RunRemove("v1")
    \/ RunSend("v1")
    \/ RunGet("v1")
    \/ \E m \in MgrIds : RunReceive(m)
    \/ \E m \in MgrIds : RunModelClose(m)

ApiSpec == Init /\ [][ApiNext]_vars

\* The second view is a view of another kind (an event downlink view) on the
\* lane of the first; it is opened once the first view has its model.
KindsInit ==
    ConstructedOf({[kind |-> "RetryStrategy", retries |-> 0, limit |-> RetriesLimit]},
                  {<<FALSE, FALSE>>}, {[v \in Views |-> "n/a"]},
                  {[v \in Views |-> IF v = "v1" THEN "value" ELSE "event"]})

\* open() of a view once the first view is registered
OpenAfter(v) == views["v1"].model # NoMgr /\ Open(v)

KindsNext ==
    \/ Open("v1")
    \/ OpenAfter("v2")
    \/ Set("v1")
    \/ \E t \in TaskIds : HandshakeOk(t)
    \/ \E t \in TaskIds : SendDone(t)
    \/ \E v \in Views : RunAdd(v)
    \/ RunSend("v1")
    \/ \E m \in MgrIds : RunReceive(m)
    \/ \E c \in ConnIds, r \in Lanes : ServerSend(c, [tag |-> "synced", route |-> r, body |-> None])

KindsSpec == KindsInit /\ [][KindsNext]_vars

\* The server sends, among the frames of the lane, frames of unknown tags, frames
\* without a lane, messages to the host and frames that do not parse.
JunkNext ==
    \/ Open("v1")
    \/ \E t \in TaskIds : HandshakeOk(t)
    \/ \E t \in TaskIds : SendDone(t)
    \/ RunAdd("v1")
    \/ \E m \in MgrIds : RunReceive(m)
    \/ \E c \in ConnIds : \E f \in Junk \cup Unparsed \cup HostFrames : ServerSend(c, f)
    \/ \E c \in ConnIds, r \in Lanes :
            ServerSend(c, [tag |-> "event", route |-> r, body |-> "42"])

JunkSpec == Init /\ [][JunkNext]_vars

\* The functions of the recon codec, each applied to its arguments.
IsIdent ==
    /\ recon.op = "is_ident"
    /\ ~recon.done
    /\ recon' = [recon EXCEPT !.done = TRUE, !.ident = is_ident(recon.text)]
    /\ UNCHANGED <<pool, strategy, nconn, conns, nmgr, mgrs, views, tasks, ready, waiting,
                   inbox, hist>>

WriteAttr ==
    /\ recon.op = "write_attr"
    /\ ~recon.done
    /\ recon' = [recon EXCEPT !.done = TRUE,
                              !.output = AttrWriter_write(recon.key, recon.value)]
    /\ UNCHANGED <<pool, strategy, nconn, conns, nmgr, mgrs, views, tasks, ready, waiting,
                   inbox, hist>>

\* A value is written by ReconWriter.write_value and the text is parsed again.
RoundTrip ==
    /\ recon.op = "round_trip"
    /\ ~recon.done
    /\ LET output == write_value(recon.value)
       IN  recon' = [recon EXCEPT !.done = TRUE, !.output = output,
                                  !.parsed = parse_literal(output.message)]
    /\ UNCHANGED <<pool, strategy, nconn, conns, nmgr, mgrs, views, tasks, ready, waiting,
                   inbox, hist>>

ReconInit ==
    ConstructedAll({[kind |-> "RetryStrategy", retries |-> 0, limit |-> RetriesLimit]},
                   {<<FALSE, FALSE>>}, {[v \in Views |-> "n/a"]},
                   {[v \in Views |-> "value"]}, ReconInputs)

ReconNext == IsIdent \/ WriteAttr \/ RoundTrip

ReconSpec == ReconInit /\ [][ReconNext]_vars

\* The facade stores auth and init messages on the connections.
AuthNext ==
    \/ \E v \in Views : Open(v)
    \/ \E c \in ConnIds : SetAuthMessage(c)
    \/ \E c \in ConnIds : SetInitMessage(c)
    \/ \E t \in TaskIds : HandshakeOk(t)
    \/ \E t \in TaskIds : SendDone(t)
    \/ \E v \in Views : RunAdd(v)
    \/ \E m \in MgrIds : RunReceive(m)

AuthSpec == Init /\ [][AuthNext]_vars

\* Views with every combination of keep_linked and keep_synced.
FlagsInit == Constructed({"RetryStrategy"}, BOOLEAN \X BOOLEAN)

FlagsSpec == FlagsInit /\ [][Lifecycle]_vars

\* ---------------------------------------------------------------- claims
\* Nothing is in flight: the loop's queue is empty and no task awaits a handshake,
\* a socket write or close, or a timer.
Settled ==
    /\ ready = <<>>
    /\ \A t \in TaskIds : tasks[t].pt \notin {"start", "connect", "sleep", "retry", "send", "close"}

Live == {CONNECTING, IDLE, RUNNING}

\* the views registered in the managers of connection c
SubscribedViews(c) ==
    {v \in Views : \E r \in Routes :
        /\ conns[c].subscribers[r] # NoMgr
        /\ Contains(mgrs[conns[c].subscribers[r]].views, v)}

\* C1: _get_connection returns the connection stored for the host if and only if
\* its status is not CLOSED, and then changes nothing; otherwise it constructs a
\* new connection (status CLOSED, no socket), stores it under the host and
\* returns it.  In both cases no existing connection changes and no handshake
\* is begun (no task is suspended or made runnable).
C1_GetConnection ==
    \A h \in Hosts, kl \in BOOLEAN, ks \in BOOLEAN :
        nconn < MaxConn =>
            LET stored == pool[h]
                reuse == stored # NoConn /\ conns[stored].status # CLOSED
                n == get_connection(St, h, kl, ks)
                returned == n.pool[h]
            IN  /\ (returned = stored) <=> reuse
                /\ reuse => n = St
                /\ ~reuse => /\ returned \notin 1..nconn
                             /\ n.nconn = nconn + 1
                             /\ n.conns[returned].status = CLOSED
                             /\ n.conns[returned].websocket = None
                             /\ n.conns[returned].host = h
                             /\ n.conns[returned].keep_linked = kl
                             /\ n.conns[returned].keep_synced = ks
                             /\ PoolSize(n.conns[returned]) = 0
                /\ \A c \in 1..nconn : n.conns[c] = conns[c]
                /\ n.tasks = tasks /\ n.ready = ready /\ n.waiting = waiting

\* C1 witness: a second connection was constructed for the host in place of a
\* stored connection whose status is CLOSED, and the pool can still construct.
C1_Witness ==
    /\ nconn = 2
    /\ nconn < MaxConn
    /\ pool["h1"] = 2
    /\ conns[1].status = CLOSED
    /\ conns[1].host = "h1"

\* C2: for every host at most one connection object, in or out of the pool, has
\* status CONNECTING, IDLE or RUNNING.
C2_OneSocketPerHost ==
    \A h \in Hosts :
        Cardinality({c \in 1..nconn : conns[c].host = h /\ conns[c].status \in Live}) <= 1

\* C3: when nothing is in flight any more, a connection whose manager pool is
\* empty has status CLOSED.
C3_NoSubscribersClosed ==
    Settled => \A c \in 1..nconn : PoolSize(conns[c]) = 0 => conns[c].status = CLOSED

\* C4: a manager with no views has status CLOSED.
C4_NoViewsClosed ==
    \A m \in 1..nmgr : Len(mgrs[m].views) = 0 => mgrs[m].status = CLOSED

\* C5: once the add and remove tasks of a view have ended, did_open was fired
\* once for each _add_downlink_view that returned and did_close once for each
\* _remove_downlink_view.
C5_OpenCloseCallbacks ==
    \A v \in Views :
        Finished(tasks[<<"add", v>>]) /\ Finished(tasks[<<"rem", v>>]) =>
            /\ hist.did_open[v] = hist.subscribes[v]
            /\ hist.did_close[v] = hist.unsubscribes[v]

\* C6: once both views are subscribed and nothing is in flight, one sync was
\* sent and one model was created; and an event that the lane published after
\* both views were opened has fired did_set(42, None) once on each view.
C6_SharedSync ==
    Settled /\ (\A v \in Views : hist.subscribes[v] = 1) =>
        /\ hist.syncs = 1
        /\ hist.models = 1
        /\ hist.late_events = 1 => \A v \in Views : hist.did_set[v] = <<<<"42", None>>>>

\* C7: once the retry strategy has approved the reconnection of a connection
\* whose socket closed and nothing is in flight any more, the connection is
\* RUNNING on an open socket, its receive loop awaits a frame and every frame
\* that arrived was dispatched.
C7_Reconnects ==
    Settled =>
        \A c \in 1..nconn :
            hist.reconnects[c] =>
                /\ conns[c].status = RUNNING
                /\ conns[c].websocket = "open"
                /\ RecvWaiters(St, c) # {}
                /\ inbox[c] = <<>>

\* C8: on every socket the auth and init messages that were stored when the
\* handshake succeeded come first, auth before init: what was written to the
\* socket or dispatched from it so far agrees with them position by position.
C8_AuthInitFirst ==
    \A c \in 1..nconn :
        \A i \in 1..Len(conns[c].sent) :
            i <= Len(conns[c].stored) => conns[c].sent[i] = conns[c].stored[i]

\* C9: should_reconnect() of a connection that has subscribed views is the
\* logical OR of keep_linked and keep_synced over these views.
C9_ShouldReconnect ==
    \A c \in 1..nconn :
        SubscribedViews(c) # {} =>
            (should_reconnect(conns[c]) <=>
                \E v \in SubscribedViews(c) : views[v].keep_linked \/ views[v].keep_synced)

\* One step: an eviction from the pool, or the end of a remove task.
C10_Step ==
    /\ \A h \in Hosts :
          pool[h] # NoConn /\ pool'[h] = NoConn => ~has_subscribers(conns'[pool[h]])
    /\ \A v \in Views :
          LET c == views[v].connection
          IN  /\ tasks[<<"rem", v>>].pt # "done"
              /\ tasks'[<<"rem", v>>].pt = "done"
              /\ c # NoConn
              /\ ~has_subscribers(conns'[c])
              => pool'[views[v].host] # c

\* C10: a step of _remove_downlink_view takes a connection out of the pool only
\* if that connection is left with no subscribers, and when the call ends a
\* connection of the view that is left with no subscribers is not in the pool.
C10_RemoveIffNoSubscribers == [][C10_Step]_vars

\* C11: The synced signal of a downlink model is never set before its linked
\* signal has been set, whatever frames arrive and in whatever order.
C11_SyncedAfterLinked == \A m \in MgrIds : mgrs[m].synced => mgrs[m].linked

\* C12: get_value() never returns before its model has received a synced
\* envelope: every value a get(wait_sync=True) returned was returned by a model
\* to which a synced frame had been dispatched (so with no synced frame it never
\* returns).
C12_GetAfterSynced ==
    \A v \in Views : \A i \in 1..Len(hist.got[v]) :
        hist.synced_frames[hist.got[v][i][1]] >= 1

\* A get(wait_sync=True) has returned.
C12_Witness == \E v \in Views : hist.got[v] # <<>>

\* The value a view reads from the body of an event.
ValueOf(body) == IF body = Absent THEN None ELSE body

IsSuffix(a, b) ==
    /\ Len(a) <= Len(b)
    /\ \A i \in 1..Len(a) : a[i] = b[Len(b) - Len(a) + i]

\* C13: Each event dispatched to a model replaces the stored value with the
\* body of the event (None when the body is Absent) and fires did_set(new, old)
\* with old the value stored immediately before: old of each did_set is new of
\* the previous one (None for the first), the stored value is new of the latest
\* did_set, and every view of the manager is called with these arguments.
C13_DidSetChain ==
    \A m \in 1..nmgr :
        LET calls == hist.set_value[m]
            events == hist.dispatched[mgrs[m].connection]
        IN  /\ Len(calls) = Len(events)
            /\ \A i \in 1..Len(calls) :
                  /\ calls[i][1] = ValueOf(events[i])
                  /\ calls[i][2] = IF i = 1 THEN None ELSE calls[i - 1][1]
            /\ mgrs[m].value = IF calls = <<>> THEN None ELSE calls[Len(calls)][1]
            /\ \A v \in Views : views[v].model = m => IsSuffix(hist.did_set[v], calls)

\* Two events with different bodies, the second Absent, were dispatched and a
\* view was called for both.
C13_Witness ==
    \E m \in 1..nmgr, v \in Views :
        /\ hist.set_value[m] = <<<<"42", None>>, <<None, "42">>>>
        /\ hist.did_set[v] = hist.set_value[m]

\* The tasks that hold a frame recv() returned to them and have not dispatched yet.
Holders(c) == {t \in TaskIds : tasks[t].c = c /\ tasks[t].frame # NoFrame}

RECURSIVE EventBodies(_)
EventBodies(frames) ==
    IF frames = <<>> THEN <<>>
    ELSE (IF Head(frames).tag = "event" THEN <<Head(frames).body>> ELSE <<>>)
            \o EventBodies(Tail(frames))

\* C14: On each connection the events are dispatched in the order in which they
\* arrived, and the dispatch of a frame completes before the next frame is read:
\* the events that arrived are the dispatched ones, then the frame a receive
\* task holds (at most one), then the frames still queued in the socket.
C14_DispatchInOrder ==
    \A c \in 1..nconn :
        /\ Cardinality(Holders(c)) <= 1
        /\ hist.arrived[c] =
              hist.dispatched[c]
                 \o EventBodies(SetToSeq({tasks[t].frame : t \in Holders(c)}))
                 \o EventBodies(inbox[c])

\* Two events with different bodies arrived and were dispatched.
C14_Witness ==
    \E c \in 1..nconn :
        /\ Len(hist.dispatched[c]) = 2
        /\ hist.dispatched[c][1] # hist.dispatched[c][2]

\* C15: The messages of successive set() calls on one view are written to the
\* socket in the order in which set() was called.
C15_SetsInOrder ==
    \A v \in Views : \A i, j \in 1..Len(hist.written[v]) :
        i < j => hist.written[v][i] < hist.written[v][j]

\* A task is in the receive loop of c, waiting in recv(), and is not cancelled.
Receiving(c) ==
    \E t \in TaskIds :
        t[1] = "rx" /\ tasks[t].c = c /\ tasks[t].pt = "recv" /\ ~tasks[t].cancel

\* A manager with views is open on c.
Needed(c) ==
    \E m \in 1..nmgr :
        /\ mgrs[m].connection = c
        /\ mgrs[m].status = OPEN
        /\ mgrs[m].views # <<>>
        /\ conns[c].subscribers[mgrs[m].route] = m

C16_Step ==
    \A c \in ConnIds :
        (/\ Receiving(c)
         /\ Needed(c)'
         /\ conns'[c].status = RUNNING
         /\ conns'[c].websocket = "open") => Receiving(c)'

\* C16: No step ends the receive loop of a connection that stays RUNNING on an
\* open socket while a manager with views is still open on it: closing the model
\* of one lane leaves the receive loop to the managers of the other lanes.
C16_ReceiveLoopKept == [][C16_Step]_vars

\* C17: Once a connection was closed explicitly while a task slept in retry()
\* for it, the pending retry is abandoned: the connection stays CLOSED, its
\* connected signal is not set and no further handshake is attempted on it.
C17_CloseCancelsRetry ==
    \A c \in ConnIds :
        hist.closed_asleep[c] =>
            /\ conns[c].status = CLOSED
            /\ ~conns[c].connected
            /\ ~\E t \in TaskIds : tasks[t].c = c /\ tasks[t].pt = "connect"

\* The task t resumes in the except branch of _open and gives up: the handshake
\* raised and should_reconnect() is false or the strategy refuses.
GivesUp(t) ==
    /\ tasks[t].pt = "connect"
    /\ tasks[t].res = "fail"
    /\ ~tasks[t].cancel
    /\ tasks'[t].pt # "connect"
    /\ ~(should_reconnect(conns[tasks[t].c]) /\ retry_approves(strategy))

C18_Step ==
    /\ \A t \in TaskIds :
          GivesUp(t) =>
              LET c == tasks[t].c
              IN  /\ conns'[c].status = CLOSED
                  /\ tasks'[t].pt = "failed"
                  /\ conns'[c].connected => conns[c].connected
                  /\ ~\E u \in TaskIds : tasks'[u].c = c /\ tasks'[u].pt \in {"connect", "sleep"}
    /\ strategy.kind = "RetryStrategy" =>
          \A t \in TaskIds :
              tasks[t].pt = "connect" /\ tasks[t].res = "fail" /\ tasks'[t].pt # "connect"
                 => GivesUp(t)

\* C18: When a handshake raises and should_reconnect() is false or the strategy
\* refuses, _open sets the status to CLOSED, raises to its caller and does not
\* set connected; with the default RetryStrategy the first failed handshake is
\* the only attempt.
C18_GiveUpClosed == [][C18_Step]_vars

\* An IntervalStrategy approved one retry and refused the second: _open raised
\* after two failed handshakes.
C18_Witness ==
    /\ tasks[<<"add", "v1">>].pt = "failed"
    /\ strategy.kind = "IntervalStrategy"
    /\ strategy.retries = 1
    /\ hist.fails = 2

\* C19: An IntervalStrategy with a retries_limit has returned True from retry()
\* at most retries_limit times since the last reset() (retries counts these
\* returns) and refuses once the limit is reached; without a limit it always
\* approves.
C19_RetryBudget ==
    strategy.kind = "IntervalStrategy" =>
        IF strategy.limit = NoLimit
        THEN retry_approves(strategy)
        ELSE /\ strategy.retries <= strategy.limit
             /\ strategy.retries >= strategy.limit => ~retry_approves(strategy)

\* The task t resumes from a handshake that succeeded.
Connects(t) ==
    /\ tasks[t].pt = "connect"
    /\ tasks[t].res = "ok"
    /\ ~tasks[t].cancel
    /\ tasks'[t].pt # "connect"

C20_Step ==
    \A t \in TaskIds :
        Connects(t) =>
            /\ strategy'.retries = 0
            /\ conns'[tasks[t].c].status \in {IDLE, RUNNING}
            /\ strategy.kind # "RetryStrategy" /\ strategy.limit # 0
                  => retry_approves(strategy')

Moves ==
    {<<CLOSED, CONNECTING>>, <<CONNECTING, IDLE>>, <<CONNECTING, CLOSED>>, <<IDLE, RUNNING>>}
        \cup {<<st, CLOSED>> : st \in {CLOSED, CONNECTING, IDLE, RUNNING}}

StepMoves == Moves \cup {<<CONNECTING, RUNNING>>}

C21_Step ==
    \A c \in ConnIds :
        conns'[c].status # conns[c].status => <<conns[c].status, conns'[c].status>> \in StepMoves

\* C21: The status of a connection changes only CLOSED to CONNECTING,
\* CONNECTING to IDLE, CONNECTING to CLOSED, IDLE to RUNNING and any status to
\* CLOSED; never from CLOSED directly to IDLE or RUNNING and never from RUNNING
\* back to IDLE.
C21_StatusMoves == [][C21_Step]_vars

\* The task t writes a message to the socket in this step (it enters the await
\* of websocket.send).
Writes(t) == tasks'[t].pt = "send" /\ tasks[t].pt # "send"

C22_Step ==
    \A t \in TaskIds :
        Writes(t) =>
            /\ conns'[tasks'[t].c].connected
            /\ conns'[tasks'[t].c].status \in {IDLE, RUNNING}

\* C22: _send_message writes to the socket only while the connected signal is
\* set and the status of the connection is IDLE or RUNNING.
C22_WriteWhenConnected == [][C22_Step]_vars

C23_Step ==
    \A m \in MgrIds :
        mgrs'[m].status # mgrs[m].status =>
            <<mgrs[m].status, mgrs'[m].status>> \in
                {<<CLOSED, OPENING>>, <<OPENING, OPEN>>, <<OPENING, CLOSED>>, <<OPEN, CLOSED>>}

\* C23: The status of a downlink manager changes only CLOSED to OPENING,
\* OPENING to OPEN and to CLOSED: OPEN is reached only from OPENING, and a
\* manager that was closed while OPENING does not become OPEN afterwards.
C23_ManagerMoves == [][C23_Step]_vars

\* No _add_downlink_view or _remove_downlink_view call is in progress.
NoCallInProgress ==
    \A v \in Views : Finished(tasks[<<"add", v>>]) /\ Finished(tasks[<<"rem", v>>])

\* C24: Whenever no register or deregister call is in progress, every manager
\* in the pool of a connection has at least one view, and every view that is in
\* a manager is in the manager the pool of its connection stores under the
\* route of the view.
C24_ManagersHaveViews ==
    NoCallInProgress =>
        /\ \A c \in 1..nconn, r \in Routes :
              conns[c].subscribers[r] # NoMgr => mgrs[conns[c].subscribers[r]].views # <<>>
        /\ \A m \in 1..nmgr, v \in Views :
              Contains(mgrs[m].views, v) =>
                  conns[mgrs[m].connection].subscribers[views[v].route] = m


\* ---------------------------------------------------------------- C25
\* The step appends a new task t to the queue of the loop.
Scheduled(t) ==
    /\ tasks'[t].pt = "start"
    /\ Len(SelectSeq(ready', LAMBDA x : x = t)) > Len(SelectSeq(ready, LAMBDA x : x = t))

\* The step is a call of the method op of view v.
Calls(op, v) ==
    /\ hist'.calls = hist.calls + 1
    /\ hist'.last_call.op = op
    /\ hist'.last_call.v = v

\* The step changes nothing of the client: no view, manager, connection, task or queue.
NoEffect ==
    UNCHANGED <<pool, strategy, nconn, conns, nmgr, mgrs, views, tasks, ready, waiting, inbox>>

C25_Step ==
    \A v \in Views :
        /\ Scheduled(<<"add", v>>) <=> (~views[v].is_open /\ views'[v].is_open)
        /\ Scheduled(<<"rem", v>>) <=> (views[v].is_open /\ ~views'[v].is_open)
        /\ Calls("close", v) /\ ~views[v].is_open => NoEffect
        /\ Calls("open", v) /\ views[v].is_open => NoEffect /\ ~Scheduled(<<"add", v>>)

\* C25: close() on a view that is not open schedules no task and changes no
\* state, open() on an open view schedules no task, and a step schedules an
\* add_downlink_view (remove_downlink_view) task of a view exactly when it takes
\* is_open of the view from false to true (from true to false), so the tasks
\* scheduled and the transitions of is_open are equal in number.
C25_GuardedOpenClose == [][C25_Step]_vars

\* close() was called on a view that had been opened and closed before.
C25_Witness ==
    /\ hist.last_call.op = "close"
    /\ ~hist.last_call.was_open
    /\ views["v1"].opens = 1
    /\ tasks[<<"rem", "v1">>].pt # "none"


\* ---------------------------------------------------------------- C26
C26_Step ==
    \A v \in Views :
        /\ (Calls("get", v) \/ Calls("set", v)) /\ ~views[v].is_open
              => /\ hist'.last_call.raised = "RuntimeError"
                 /\ NoEffect
                 /\ hist'.written = hist.written
        /\ Calls("did_set", v) /\ hist'.last_call.raised = "TypeError"
              => /\ views'[v].did_set_callback = views[v].did_set_callback
                 /\ NoEffect
        /\ Calls("did_set", v) /\ hist'.last_call.raised = None
              => views'[v].did_set_callback \in Callables
        /\ views'[v].did_set_callback \in Callables \cup {None}

\* C26: get() and set() on a view that is not open raise RuntimeError, schedule
\* no task, write no message and leave views, models and connections unchanged;
\* did_set(f) with an f that is not callable raises TypeError and leaves the
\* registered callback unchanged (no value that is not callable is ever stored).
C26_ClosedViewRaises == [][C26_Step]_vars

\* A view with a registered callback was opened and closed, a get() or set()
\* of it was refused, and a did_set() of it was refused last.
C26_Witness ==
    /\ hist.last_call.op = "did_set"
    /\ hist.last_call.raised = "TypeError"
    /\ hist.refused > 0
    /\ views["v1"].opens = 1
    /\ views["v1"].did_set_callback \in Callables


TakesJunk(c) ==
    /\ hist'.junk_taken > hist.junk_taken
    /\ \E t \in TaskIds : t[1] = "rx" /\ tasks[t].c = c /\ tasks[t].pt = "recv"
                           /\ Head(ready) = t

C28_Step ==
    \A c \in ConnIds :
        TakesJunk(c) /\ conns[c].status = RUNNING /\ conns'[c].websocket = "open"
            => /\ conns'[c].status = RUNNING
               /\ Receiving(c)'

\* C28: a frame with an unknown envelope tag or a malformed header, one whose
\* parsing or handling raises included, is discarded without tearing down the
\* connection: the status stays RUNNING and the receive loop is reading again
\* after the step that takes the frame.
C28_JunkDiscarded == [][C28_Step]_vars


\* ---------------------------------------------------------------- C29
\* [A-Za-z_] and [A-Za-z0-9_-] as sets of code points
IdentStart == (65..90) \cup (97..122) \cup {95}
IdentPart == IdentStart \cup (48..57) \cup {45}

Writing(value) == write_value(value).message

Count(q, ch) == Cardinality({i \in 1..Len(q) : q[i] = ch})

\* C30: AttrWriter writes Attr(key, value) as `@key` when value is Extant and
\* otherwise as `@key(` + the writing of value + `)`, with as many closing as
\* opening parentheses; an attribute whose value has size 0, like
\* Attr("tag", Record[]), is written with both parentheses.
C30_AttrWritten ==
    /\ recon.op = "write_attr"
    /\ recon.done
    /\ write_value(recon.value).kind # "raise"
    => /\ recon.output.kind = "msg"
       /\ recon.output.message =
             IF recon.value = Extant_get_extant
             THEN <<64>> \o Writing(recon.key)
             ELSE <<64>> \o Writing(recon.key) \o <<40>> \o Writing(recon.value) \o <<41>>
       /\ Count(recon.output.message, 40) = Count(recon.output.message, 41)


\* ---------------------------------------------------------------- C31
\* C31: parsing the text that the writer writes for a value the parser can
\* produce yields the value again: parse(write(v)) = v.
C31_RoundTrip == recon.op = "round_trip" /\ recon.done => recon.parsed = recon.value


\* ---------------------------------------------------------------- C32
\* The invocations of _wait_for_messages that await recv() on connection c.
InLoop(c) == {t \in TaskIds : t[1] = "rx" /\ tasks[t].c = c /\ tasks[t].pt = "recv"}

\* The step runs an invocation of _wait_for_messages of c from its start.
Starts(t, c) == t[1] = "rx" /\ tasks[t].pt = "start" /\ tasks[t].c = c /\ tasks'[t].pt # "start"

C32_Step ==
    \A c \in ConnIds :
        /\ Cardinality(InLoop(c)') <= 1
        /\ \A t \in TaskIds :
              Starts(t, c) /\ conns[c].status # IDLE =>
                  /\ Finished(tasks'[t])
                  /\ conns'[c].status = conns[c].status
                  /\ inbox'[c] = inbox[c]
                  /\ hist'.dispatched[c] = hist.dispatched[c]

\* C32: at most one invocation of _wait_for_messages of a connection awaits
\* recv() at any time, and an invocation that starts when the status is not
\* IDLE returns without reading a frame and without changing the status.
C32_OneReceiveLoop == [][C32_Step]_vars

\* Two invocations were started on a connection: one awaits recv(), the other
\* found the status RUNNING and returned.
C32_Witness ==
    \E c \in ConnIds, t \in TaskIds, u \in TaskIds :
        /\ t \in InLoop(c)
        /\ u[1] = "rx" /\ u # t /\ tasks[u].pt = "done"
        /\ \E m \in 1..nmgr : mgrs[m].connection = c /\ u = <<"rx", m>>
        /\ conns[c].status = RUNNING


\* the managers that reached OPEN on a connection whose handshake succeeded
OpenOn(c) ==
    {m \in 1..nmgr : /\ mgrs[m].connection = c
                     /\ mgrs[m].status = OPEN
                     /\ conns[c].websocket = "open"
                     /\ conns[c].status \in {IDLE, RUNNING}}

\* C33: once nothing is scheduled or in flight any more, a connection whose
\* handshake succeeded and on which a manager has reached OPEN is RUNNING: the
\* receive loop that the open of the model scheduled has started, also when
\* the view that opened the model subscribed while the _open of another view
\* was still CONNECTING.
C33_LoopStarted ==
    \A c \in 1..nconn : Settled /\ OpenOn(c) # {} => conns[c].status = RUNNING

C34_Step ==
    \A t \in TaskIds :
        t[1] = "snd" /\ Writes(t) =>
            /\ views'[t[2]].initialised
            /\ mgrs'[tasks'[t].m].synced

\* C34: a step in which the send task of a set() writes its command to the
\* socket is taken only when the initialised signal of the view and the synced
\* signal of the model it sends through are both set.
C34_SentAfterSynced == [][C34_Step]_vars

C34_Witness ==
    /\ hist.written["v1"] # <<>>
    /\ views["v1"].initialised
    /\ \E m \in 1..nmgr : mgrs[m].synced /\ tasks[<<"snd", "v1", 1>>].m = m

\* the retry strategy a connection holds: the one the pool gave its constructor
retry_strategy(c) == strategy

\* the number of retries that the strategy of connection c still approves
Available(c) ==
    LET st == retry_strategy(c)
    IN  CASE st.kind = "RetryStrategy" -> 0
          [] st.limit = NoLimit -> NoLimit
          [] st.retries >= st.limit -> 0
          [] OTHER -> st.limit - st.retries

\* The task t resumes in _open of its connection: from a handshake that returned
\* or raised, or from the sleep of the retry that a failed handshake started.
Reopens(t) ==
    /\ ready # <<>> /\ Head(ready) = t
    /\ tasks[t].pt \in {"connect", "sleep"}
    /\ ~tasks[t].cancel
    /\ tasks'[t] # tasks[t]

C35_Step ==
    \A t \in TaskIds, b \in 1..nconn :
        Reopens(t) /\ conns[tasks[t].c].host # conns[b].host =>
            Available(b)' = Available(b)

\* C35: a step in which a task resumes from a handshake, failed or successful,
\* or from the retry of a failed handshake on the connection of one host leaves
\* the number of retries still available to a connection of another host as it
\* was.
C35_BudgetPerConnection == [][C35_Step]_vars

\* C36: an ExponentialStrategy with a retries_limit has returned True from
\* retry() at most retries_limit times since the last reset(), and refuses once
\* it has: the budget of an IntervalStrategy with the same limit.
C36_ExponentialBudget ==
    strategy.kind = "ExponentialStrategy" /\ strategy.limit # NoLimit =>
        /\ strategy.retries <= strategy.limit
        /\ strategy.retries >= strategy.limit => ~retry_approves(strategy)

\* the IntervalStrategy of the same limit keeps the budget when no calls overlap
IntervalBudget ==
    strategy.kind = "IntervalStrategy" /\ strategy.limit # NoLimit =>
        /\ strategy.retries <= strategy.limit
        /\ strategy.retries >= strategy.limit => ~retry_approves(strategy)

\* the view was closed: in EarlySpec, while its add task was in progress
ClosedEarly(v) == ~views[v].is_open /\ views[v].opens > 0

\* when nothing is scheduled or in flight, a view closed during its add is in
\* no manager and its connection, if no other view subscribes to it, is CLOSED
C37_Settled ==
    \A v \in Views :
        Settled /\ ClosedEarly(v) =>
            /\ \A m \in 1..nmgr : ~Contains(mgrs[m].views, v)
            /\ \A c \in 1..nconn :
                  views[v].connection = c /\ SubscribedViews(c) \ {v} = {} =>
                      conns[c].status = CLOSED

\* did_close of a view is fired only after its did_open
C37_Step ==
    \A v \in Views :
        hist'.did_close[v] > hist.did_close[v] => hist.did_open[v] > 0

\* C37: a view on which close() was called while its add_downlink_view task
\* was in progress is, once nothing is scheduled or in flight any more,
\* registered in no downlink manager, and its connection is CLOSED if no other
\* view subscribes to it; no step fires its did_close before its did_open.
C37_CloseDuringAdd == [][C37_Step /\ C37_Settled']_vars

\* the commands of the set() calls of view v whose send task was scheduled
Issued(v) == {k \in 1..MaxSets : tasks[<<"snd", v, k>>].pt # "none"}

\* the model of view v has received a synced envelope and its connection is
\* connected
Ready(v) ==
    /\ views[v].model # NoMgr
    /\ mgrs[views[v].model].synced
    /\ conns[mgrs[views[v].model].connection].connected

\* C38: once nothing is scheduled or in flight any more, every command that
\* set() issued on a view that is open, whose model has received a synced
\* envelope and whose connection is connected, has been written to the socket:
\* no send task is left waiting for the initialised signal of the view.
C38_CommandSent ==
    \A v \in Views :
        Settled /\ views[v].is_open /\ Ready(v) =>
            \A k \in Issued(v) : Contains(hist.written[v], k)

\* The receive task t resumes from the websocket.close() of the _close that
\* handles a ConnectionClosed, and may not reconnect.
GivesUpReading(t) ==
    /\ t[1] = "rx"
    /\ ready # <<>> /\ Head(ready) = t
    /\ tasks[t].pt = "close" /\ tasks[t].ctx = "rx_except"
    /\ ~tasks[t].cancel
    /\ ~(should_reconnect(conns[tasks[t].c]) /\ retry_approves(strategy))
    /\ tasks'[t] # tasks[t]

C39_Step ==
    \A t \in TaskIds :
        GivesUpReading(t) =>
            /\ Finished(tasks'[t])
            /\ conns'[tasks[t].c].status \in {CLOSED, CONNECTING}
            /\ ~conns'[tasks[t].c].connected

\* C39: the step in which _wait_for_messages has handled the ConnectionClosed
\* of a RUNNING connection and reconnection is not permitted ends the task
\* and leaves the connection CLOSED with the connected signal clear
\* (CONNECTING when a send has begun to open it again meanwhile).
C39_LoopEndsClosed == [][C39_Step]_vars

C40_Step ==
    \A t \in TaskIds :
        Connects(t) /\ conns[tasks[t].c].status = CLOSED =>
            /\ conns'[tasks[t].c].status = CLOSED
            /\ ~conns'[tasks[t].c].connected

\* C40: the step in which _open resumes from a successful handshake on a
\* connection that _close() has closed during the handshake leaves the status
\* CLOSED and the connected signal clear.
C40_CloseWins == [][C40_Step]_vars

============================================================================
